---- MODULE Spec2Model ----
(***************************************************************************)
(* Model of the toolset registry of gitlab-mcp-server (package toolsets):  *)
(* Toolset objects live on a heap and are shared by pointer, ToolsetGroup  *)
(* maps names to pointers.  One action per exported function or method.    *)
(***************************************************************************)
EXTENDS Integers, Sequences, FiniteSets, TLC

\* ---------------------------------------------------------------- bounds
MaxToolsets == 2      \* Toolset objects ever constructed
MaxTools    == 2      \* tools held by all toolsets together
MaxNames    == 2      \* length of a names list handed to EnableToolsets

ToolsetNames == {"a", "b"}          \* names given to NewToolset
NameStrings  == {"a", "b", "all"}   \* strings that occur in names lists
Descriptions == {"d1"}
Tools        == {"t1", "t2"}        \* server.ServerTool values

\* sequences over S of length lo..hi
SeqsOf(S, lo, hi) == UNION {[1..n -> S] : n \in lo..hi}

\* ---------------------------------------------------------------- errors
NoErr == <<>>
ErrNoToolsetsSpecified == <<"no toolsets specified to enable">>
ErrNoValidToolsets == <<"no valid toolsets were enabled">>
ErrUnknownToolset(name) == <<"unknown toolset: ", name>>

\* heap, tg: the Toolset objects and the ToolsetGroup; last: the latest call;
\* req: the Arguments of the CallToolRequest at hand; mem: the backing
\* arrays of the slices, where a specification tracks them; pc, calls, locals:
\* the position of the process that is followed (the stdio command, a tool
\* handler), the calls it has made so far and its local variables
VARIABLES heap, tg, last, req, mem, pc, calls, locals
vars == <<heap, tg, last, req, mem, pc, calls, locals>>

\* ---------------------------------------------------------------- Toolset
\* faulty variant: a toolset is constructed enabled
NewToolsetEnabled(name, description) ==
  [Name |-> name, Description |-> description, Enabled |-> TRUE,
   readOnly |-> FALSE, writeTools |-> <<>>, readTools |-> <<>>]

NewToolset(name, description) ==
  [Name |-> name, Description |-> description, Enabled |-> FALSE,
   readOnly |-> FALSE, writeTools |-> <<>>, readTools |-> <<>>]

AddReadTools(t, tools) == [t EXCEPT !.readTools = @ \o tools]

AddWriteTools(t, tools) == [t EXCEPT !.writeTools = @ \o tools]

\* faulty variant: the Enabled check is missing
GetActiveToolsIgnoreEnabled(t) ==
  IF t.readOnly THEN t.readTools ELSE t.readTools \o t.writeTools

\* faulty variant: the readOnly check is missing
GetActiveToolsIgnoreReadOnly(t) ==
  IF ~t.Enabled THEN <<>> ELSE t.readTools \o t.writeTools

GetActiveTools(t) ==
  IF ~t.Enabled THEN <<>>
  ELSE IF t.readOnly THEN t.readTools
  ELSE t.readTools \o t.writeTools

\* faulty variant: the flag is left as it is
SetReadOnlyNoop(t) == t

SetReadOnly(t) == [t EXCEPT !.readOnly = TRUE]

\* the AddTool calls Toolset.RegisterTools makes on server s
ToolsetRegisterTools(t, s) == s \o GetActiveTools(t)

\* ---------------------------------------------------------------- ToolsetGroup
EmptyMap == [n \in {} |-> 0]

NewToolsetGroup(readOnly) ==
  [Toolsets |-> EmptyMap, everythingOn |-> FALSE, readOnly |-> readOnly]

\* faulty variant: the group's readOnly flag is not propagated
AddToolsetNoPropagate(g, h, p) ==
  [tg |-> [g EXCEPT !.Toolsets = (h[p].Name :> p) @@ @], heap |-> h]

\* faulty variant: the toolset's flag is overwritten by the group's
AddToolsetAssign(g, h, p) ==
  [tg   |-> [g EXCEPT !.Toolsets = (h[p].Name :> p) @@ @],
   heap |-> [h EXCEPT ![p].readOnly = g.readOnly]]

\* faulty variant: a name that is already a key keeps its toolset
AddToolsetKeepFirst(g, h, p) ==
  [tg   |-> [g EXCEPT !.Toolsets = @ @@ (h[p].Name :> p)],
   heap |-> IF g.readOnly THEN [h EXCEPT ![p] = SetReadOnly(@)] ELSE h]

\* faulty variant: a group on which "all" was requested enables what it is given
AddToolsetEnableWhenAll(g, h, p) ==
  [tg   |-> [g EXCEPT !.Toolsets = (h[p].Name :> p) @@ @],
   heap |-> [h EXCEPT ![p] = [(IF g.readOnly THEN SetReadOnly(@) ELSE @)
                                EXCEPT !.Enabled = @ \/ g.everythingOn]]]

\* the methods of *ToolsetGroup act on the group g and, through the
\* pointers it holds, on the heap h; they return both and the error
AddToolset(g, h, p) ==
  [tg   |-> [g EXCEPT !.Toolsets = (h[p].Name :> p) @@ @],
   heap |-> IF g.readOnly THEN [h EXCEPT ![p] = SetReadOnly(@)] ELSE h]

\* faulty variant: an unknown name is skipped without an error
EnableToolsetSilent(g, h, name) ==
  IF name \notin DOMAIN g.Toolsets
  THEN [tg |-> g, heap |-> h, err |-> NoErr]
  ELSE [tg |-> g, heap |-> [h EXCEPT ![g.Toolsets[name]].Enabled = TRUE],
        err |-> NoErr]

EnableToolset(g, h, name) ==
  IF name \notin DOMAIN g.Toolsets
  THEN [tg |-> g, heap |-> h, err |-> ErrUnknownToolset(name)]
  ELSE [tg |-> g, heap |-> [h EXCEPT ![g.Toolsets[name]].Enabled = TRUE],
        err |-> NoErr]

RECURSIVE EnableEach(_, _, _, _)
EnableEach(g, h, names, enabledCount) ==
  IF names = <<>>
  THEN [tg |-> g, heap |-> h,
        err |-> IF enabledCount = 0 THEN ErrNoValidToolsets ELSE NoErr]
  ELSE LET r == EnableToolset(g, h, Head(names))
       IN IF r.err # NoErr THEN r
          ELSE EnableEach(g, r.heap, Tail(names), enabledCount + 1)

\* faulty variant: the empty list is rejected only after everythingOn was cleared
EnableToolsetsClearFirst(g, h, names) ==
  IF Len(names) = 1 /\ names[1] = "all"
  THEN [tg   |-> [g EXCEPT !.everythingOn = TRUE],
        heap |-> [p \in DOMAIN h |->
                   IF \E n \in DOMAIN g.Toolsets : g.Toolsets[n] = p
                   THEN [h[p] EXCEPT !.Enabled = TRUE] ELSE h[p]],
        err  |-> NoErr]
  ELSE IF Len(names) = 0
  THEN [tg |-> [g EXCEPT !.everythingOn = FALSE], heap |-> h,
        err |-> ErrNoToolsetsSpecified]
  ELSE LET r == EnableEach(g, h, names, 0)
       IN [tg |-> [g EXCEPT !.everythingOn = FALSE],
           heap |-> r.heap, err |-> r.err]

\* faulty variant: "all" sets the flag and enables nothing
EnableToolsetsFlagOnly(g, h, names) ==
  IF Len(names) = 0
  THEN [tg |-> g, heap |-> h, err |-> ErrNoToolsetsSpecified]
  ELSE IF Len(names) = 1 /\ names[1] = "all"
  THEN [tg |-> [g EXCEPT !.everythingOn = TRUE], heap |-> h, err |-> NoErr]
  ELSE LET r == EnableEach(g, h, names, 0)
       IN [tg |-> [g EXCEPT !.everythingOn = FALSE],
           heap |-> r.heap, err |-> r.err]

\* faulty variant: a failing call rolls back what it enabled
EnableToolsetsRollback(g, h, names) ==
  IF Len(names) = 0
  THEN [tg |-> g, heap |-> h, err |-> ErrNoToolsetsSpecified]
  ELSE IF Len(names) = 1 /\ names[1] = "all"
  THEN [tg   |-> [g EXCEPT !.everythingOn = TRUE],
        heap |-> [p \in DOMAIN h |->
                   IF \E n \in DOMAIN g.Toolsets : g.Toolsets[n] = p
                   THEN [h[p] EXCEPT !.Enabled = TRUE] ELSE h[p]],
        err  |-> NoErr]
  ELSE LET r == EnableEach(g, h, names, 0)
       IN [tg |-> [g EXCEPT !.everythingOn = FALSE],
           heap |-> IF r.err # NoErr THEN h ELSE r.heap, err |-> r.err]

\* faulty variant: the named path leaves everythingOn as it was
EnableToolsetsKeepFlag(g, h, names) ==
  IF Len(names) = 0
  THEN [tg |-> g, heap |-> h, err |-> ErrNoToolsetsSpecified]
  ELSE IF Len(names) = 1 /\ names[1] = "all"
  THEN [tg   |-> [g EXCEPT !.everythingOn = TRUE],
        heap |-> [p \in DOMAIN h |->
                   IF \E n \in DOMAIN g.Toolsets : g.Toolsets[n] = p
                   THEN [h[p] EXCEPT !.Enabled = TRUE] ELSE h[p]],
        err  |-> NoErr]
  ELSE LET r == EnableEach(g, h, names, 0)
       IN [tg |-> g, heap |-> r.heap, err |-> r.err]

\* faulty variant: everythingOn is cleared only when every name resolved
EnableToolsetsClearOnSuccess(g, h, names) ==
  IF Len(names) = 0
  THEN [tg |-> g, heap |-> h, err |-> ErrNoToolsetsSpecified]
  ELSE IF Len(names) = 1 /\ names[1] = "all"
  THEN [tg   |-> [g EXCEPT !.everythingOn = TRUE],
        heap |-> [p \in DOMAIN h |->
                   IF \E n \in DOMAIN g.Toolsets : g.Toolsets[n] = p
                   THEN [h[p] EXCEPT !.Enabled = TRUE] ELSE h[p]],
        err  |-> NoErr]
  ELSE LET r == EnableEach(g, h, names, 0)
       IN [tg |-> IF r.err = NoErr THEN [g EXCEPT !.everythingOn = FALSE] ELSE g,
           heap |-> r.heap, err |-> r.err]

\* faulty variant: "all" is a directive wherever it stands in the list
EnableToolsetsAllAnywhere(g, h, names) ==
  IF Len(names) = 0
  THEN [tg |-> g, heap |-> h, err |-> ErrNoToolsetsSpecified]
  ELSE IF \E i \in 1..Len(names) : names[i] = "all"
  THEN [tg   |-> [g EXCEPT !.everythingOn = TRUE],
        heap |-> [p \in DOMAIN h |->
                   IF \E n \in DOMAIN g.Toolsets : g.Toolsets[n] = p
                   THEN [h[p] EXCEPT !.Enabled = TRUE] ELSE h[p]],
        err  |-> NoErr]
  ELSE LET r == EnableEach(g, h, names, 0)
       IN [tg |-> [g EXCEPT !.everythingOn = FALSE],
           heap |-> r.heap, err |-> r.err]

EnableToolsets(g, h, names) ==
  IF Len(names) = 0
  THEN [tg |-> g, heap |-> h, err |-> ErrNoToolsetsSpecified]
  ELSE IF Len(names) = 1 /\ names[1] = "all"
  THEN [tg   |-> [g EXCEPT !.everythingOn = TRUE],
        heap |-> [p \in DOMAIN h |->
                   IF \E n \in DOMAIN g.Toolsets : g.Toolsets[n] = p
                   THEN [h[p] EXCEPT !.Enabled = TRUE] ELSE h[p]],
        err  |-> NoErr]
  ELSE LET r == EnableEach(g, h, names, 0)
       IN [tg |-> [g EXCEPT !.everythingOn = FALSE],
           heap |-> r.heap, err |-> r.err]

\* the names of tg in one of the orders a map iteration may produce
Orders(S) == {o \in [1..Cardinality(S) -> S] : \A i, j \in DOMAIN o : i # j => o[i] # o[j]}

RECURSIVE RegisterTools(_, _, _, _)
\* faulty variant: the loop returns after the first toolset
RegisterToolsFirstOnly(g, h, order, s) ==
  IF order = <<>> THEN s
  ELSE LET ts == h[g.Toolsets[Head(order)]]
       IN IF ts.Enabled THEN ToolsetRegisterTools(ts, s) ELSE s

RegisterTools(g, h, order, s) ==
  IF order = <<>> THEN s
  ELSE LET ts == h[g.Toolsets[Head(order)]]
       IN RegisterTools(g, h, Tail(order),
                        IF ts.Enabled THEN ToolsetRegisterTools(ts, s) ELSE s)

\* ---------------------------------------------------------------- calls
Ptrs == 1..Len(heap)

\* the latest call: its name, the error it returned and its output (the
\* slice GetActiveTools returned, or the AddTool calls RegisterTools made on
\* the server handed in)
Call(op, err, out) == [op |-> op, err |-> err, out |-> out]

TotalTools ==
  LET RECURSIVE Sum(_)
      Sum(i) == IF i = 0 THEN 0
                ELSE Len(heap[i].readTools) + Len(heap[i].writeTools) + Sum(i - 1)
  IN Sum(Len(heap))

Init ==
  /\ heap = <<>>
  /\ \E readOnly \in BOOLEAN : tg = NewToolsetGroup(readOnly)
  /\ last = Call("NewToolsetGroup", NoErr, <<>>)
  /\ req = EmptyMap
  /\ mem = <<>>
  /\ pc = ""
  /\ calls = <<>>
  /\ locals = EmptyMap

DoNewToolset(name, description) ==
  /\ Len(heap) < MaxToolsets
  /\ heap' = Append(heap, NewToolset(name, description))
  /\ last' = Call("NewToolset", NoErr, <<>>)
  /\ UNCHANGED tg
  /\ UNCHANGED <<req, mem, pc, calls, locals>>

DoAddReadTools(p, tools) ==
  /\ TotalTools + Len(tools) <= MaxTools
  /\ heap' = [heap EXCEPT ![p] = AddReadTools(@, tools)]
  /\ last' = Call("AddReadTools", NoErr, <<>>)
  /\ UNCHANGED tg
  /\ UNCHANGED <<req, mem, pc, calls, locals>>

DoAddWriteTools(p, tools) ==
  /\ TotalTools + Len(tools) <= MaxTools
  /\ heap' = [heap EXCEPT ![p] = AddWriteTools(@, tools)]
  /\ last' = Call("AddWriteTools", NoErr, <<>>)
  /\ UNCHANGED tg
  /\ UNCHANGED <<req, mem, pc, calls, locals>>

DoGetActiveTools(p) ==
  /\ last' = Call("GetActiveTools", NoErr, GetActiveTools(heap[p]))
  /\ UNCHANGED <<heap, tg>>
  /\ UNCHANGED <<req, mem, pc, calls, locals>>

DoSetReadOnly(p) ==
  /\ heap' = [heap EXCEPT ![p] = SetReadOnly(@)]
  /\ last' = Call("SetReadOnly", NoErr, <<>>)
  /\ UNCHANGED tg
  /\ UNCHANGED <<req, mem, pc, calls, locals>>

DoToolsetRegisterTools(p) ==
  /\ last' = Call("Toolset.RegisterTools", NoErr, ToolsetRegisterTools(heap[p], <<>>))
  /\ UNCHANGED <<heap, tg>>
  /\ UNCHANGED <<req, mem, pc, calls, locals>>

DoAddToolset(p) ==
  LET r == AddToolset(tg, heap, p)
  IN /\ tg' = r.tg
     /\ heap' = r.heap
     /\ last' = Call("AddToolset", NoErr, <<>>)
     /\ UNCHANGED <<req, mem, pc, calls, locals>>

DoEnableToolset(name) ==
  LET r == EnableToolset(tg, heap, name)
  IN /\ tg' = r.tg
     /\ heap' = r.heap
     /\ last' = Call("EnableToolset", r.err, <<>>)
     /\ UNCHANGED <<req, mem, pc, calls, locals>>

DoEnableToolsets(names) ==
  LET r == EnableToolsets(tg, heap, names)
  IN /\ tg' = r.tg
     /\ heap' = r.heap
     /\ last' = Call("EnableToolsets", r.err, <<>>)
     /\ UNCHANGED <<req, mem, pc, calls, locals>>

DoRegisterTools ==
  /\ \E order \in Orders(DOMAIN tg.Toolsets) :
       last' = Call("RegisterTools", NoErr, RegisterTools(tg, heap, order, <<>>))
  /\ UNCHANGED <<heap, tg>>
  /\ UNCHANGED <<req, mem, pc, calls, locals>>

\* the registry takes no request and holds its slices by value: req and mem
\* stay as Init leaves them
Next ==
  \/ \E name \in ToolsetNames, d \in Descriptions : DoNewToolset(name, d)
  \/ \E p \in Ptrs, tools \in SeqsOf(Tools, 0, MaxTools) : DoAddReadTools(p, tools)
  \/ \E p \in Ptrs, tools \in SeqsOf(Tools, 0, MaxTools) : DoAddWriteTools(p, tools)
  \/ \E p \in Ptrs : DoGetActiveTools(p)
  \/ \E p \in Ptrs : DoSetReadOnly(p)
  \/ \E p \in Ptrs : DoToolsetRegisterTools(p)
  \/ \E p \in Ptrs : DoAddToolset(p)
  \/ \E name \in NameStrings : DoEnableToolset(name)
  \/ \E names \in SeqsOf(NameStrings, 0, MaxNames) : DoEnableToolsets(names)
  \/ DoRegisterTools

Spec == Init /\ [][Next]_vars

\* ================================================================ claims
NamesLists == SeqsOf(NameStrings, 0, MaxNames)
Registered == DOMAIN tg.Toolsets
\* the toolset objects the names before position i of names resolve to
Resolved(names, i) == {tg.Toolsets[names[j]] : j \in {k \in 1..(i - 1) : names[k] \in Registered}}
HasUnknown(names) == \E i \in 1..Len(names) : names[i] \notin Registered
FirstUnknown(names) ==
  CHOOSE i \in 1..Len(names) :
    names[i] \notin Registered /\ \A j \in 1..(i - 1) : names[j] \in Registered

\* C1: AddToolset(ts) stores ts under ts.Name; on a read-only group ts.readOnly
\* is true afterwards whatever it was, on any other group it keeps its value.
C1_AddToolsetPropagatesReadOnly ==
  \A p \in Ptrs :
    LET r == AddToolset(tg, heap, p)
    IN /\ heap[p].Name \in DOMAIN r.tg.Toolsets
       /\ r.tg.Toolsets[heap[p].Name] = p
       /\ tg.readOnly => r.heap[p].readOnly
       /\ ~tg.readOnly => r.heap[p].readOnly = heap[p].readOnly

\* a toolset built writable, enabled and holding write tools sits in a
\* read-only group, forced read-only by the AddToolset that just returned
C1_Witness ==
  /\ last.op = "AddToolset"
  /\ tg.readOnly
  /\ \E n \in Registered :
       LET t == heap[tg.Toolsets[n]]
       IN t.readOnly /\ t.Enabled /\ t.writeTools # <<>>

\* C2: a toolset that is not Enabled has no active tools, whatever it holds
\* and whatever readOnly is.
C2_DisabledHasNoActiveTools ==
  \A p \in Ptrs : ~heap[p].Enabled => GetActiveTools(heap[p]) = <<>>

\* GetActiveTools just returned nothing although every toolset holds tools
C2_Witness ==
  /\ last.op = "GetActiveTools"
  /\ last.out = <<>>
  /\ Ptrs # {}
  /\ \A p \in Ptrs : ~heap[p].Enabled /\ heap[p].readTools # <<>>
  /\ \E p \in Ptrs : ~heap[p].readOnly
  /\ \E p \in Ptrs : heap[p].readOnly

\* C3: enabled and readOnly: the active tools are the read tools; enabled and
\* not readOnly: the read tools followed by the write tools; a further
\* AddReadTools/AddWriteTools call shows up behind the tools of its kind
\* already held, duplicates included.
ActiveAre(t, read, write) ==
  LET a == GetActiveTools(t)
  IN IF t.readOnly
     THEN /\ Len(a) = Len(read)
          /\ \A i \in 1..Len(read) : a[i] = read[i]
     ELSE /\ Len(a) = Len(read) + Len(write)
          /\ \A i \in 1..Len(read) : a[i] = read[i]
          /\ \A i \in 1..Len(write) : a[Len(read) + i] = write[i]

C3_ActiveToolsInOrder ==
  \A p \in Ptrs :
    LET t == heap[p]
    IN t.Enabled =>
         /\ ActiveAre(t, t.readTools, t.writeTools)
         /\ \A tools \in SeqsOf(Tools, 0, MaxTools) :
              /\ ActiveAre(AddReadTools(t, tools), t.readTools \o tools, t.writeTools)
              /\ ActiveAre(AddWriteTools(t, tools), t.readTools, t.writeTools \o tools)

\* GetActiveTools just returned t2 before t1: a read tool, then a write tool
C3_Witness ==
  /\ last.op = "GetActiveTools"
  /\ last.out = <<"t2", "t1">>
  /\ \E p \in Ptrs :
       /\ heap[p].Enabled /\ ~heap[p].readOnly
       /\ heap[p].readTools = <<"t2">> /\ heap[p].writeTools = <<"t1">>

\* C4: EnableToolsets with no names fails with "no toolsets specified" and
\* changes neither a toolset nor everythingOn.
C4_EmptyNamesRejected ==
  LET r == EnableToolsets(tg, heap, <<>>)
  IN r.err = ErrNoToolsetsSpecified /\ r.heap = heap /\ r.tg = tg

\* the call just failed so, with everythingOn still true and a registered
\* toolset still disabled
C4_Witness ==
  /\ last.op = "EnableToolsets"
  /\ last.err = ErrNoToolsetsSpecified
  /\ tg.everythingOn
  /\ \E n \in Registered : ~heap[tg.Toolsets[n]].Enabled

\* C5: EnableToolsets(["all"]) succeeds, sets everythingOn and leaves every
\* registered toolset enabled, for an empty registry too.
C5_AllEnablesEveryToolset ==
  LET r == EnableToolsets(tg, heap, <<"all">>)
  IN /\ r.err = NoErr
     /\ r.tg.everythingOn
     /\ \A n \in Registered : r.heap[tg.Toolsets[n]].Enabled

\* the call just succeeded on a registry of two toolsets, both now enabled
C5_Witness ==
  /\ last.op = "EnableToolsets"
  /\ last.err = NoErr
  /\ tg.everythingOn
  /\ Cardinality(Registered) = 2
  /\ \A n \in Registered : heap[tg.Toolsets[n]].Enabled

\* C6: with an unknown name in the list (the list not being ["all"]) the call
\* fails naming the first unknown name, the names before it are enabled, and
\* no other toolset is touched: nothing is rolled back, nothing behind the
\* unknown name is enabled.
C6_FirstUnknownStopsTheCall ==
  \A names \in NamesLists \ {<<"all">>} :
    HasUnknown(names) =>
      LET r == EnableToolsets(tg, heap, names)
          i == FirstUnknown(names)
      IN /\ r.err = ErrUnknownToolset(names[i])
         /\ \A p \in Resolved(names, i) : r.heap[p] = [heap[p] EXCEPT !.Enabled = TRUE]
         /\ \A p \in Ptrs \ Resolved(names, i) : r.heap[p] = heap[p]

\* the call just failed on "b"; "a", registered, is enabled
C6_Witness ==
  /\ last.op = "EnableToolsets"
  /\ last.err = ErrUnknownToolset("b")
  /\ Registered = {"a"}
  /\ heap[tg.Toolsets["a"]].Enabled
  /\ \E p \in Ptrs : heap[p].Name = "b" /\ ~heap[p].Enabled

\* C7: a non-empty list of registered names (not ["all"]) succeeds; the named
\* toolsets are enabled, every other toolset is as before, everythingOn is
\* false.
C7_KnownNamesEnabled ==
  \A names \in NamesLists \ {<<>>, <<"all">>} :
    ~HasUnknown(names) =>
      LET r == EnableToolsets(tg, heap, names)
          named == Resolved(names, Len(names) + 1)
      IN /\ r.err = NoErr
         /\ \A p \in named : r.heap[p] = [heap[p] EXCEPT !.Enabled = TRUE]
         /\ \A p \in Ptrs \ named : r.heap[p] = heap[p]
         /\ r.tg = [tg EXCEPT !.everythingOn = FALSE]

\* the call just succeeded in a registry of two, one of them left disabled
C7_Witness ==
  /\ last.op = "EnableToolsets"
  /\ last.err = NoErr
  /\ ~tg.everythingOn
  /\ Registered = {"a", "b"}
  /\ heap[tg.Toolsets["a"]].Enabled # heap[tg.Toolsets["b"]].Enabled

\* C8: EnableToolset of an unregistered name fails with "unknown toolset:
\* <name>" and changes nothing; of a registered name it succeeds, enables
\* that toolset and no other, and a second call changes nothing more.
C8_EnableToolsetByName ==
  \A name \in NameStrings :
    LET r == EnableToolset(tg, heap, name)
    IN IF name \notin Registered
       THEN r.err = ErrUnknownToolset(name) /\ r.heap = heap /\ r.tg = tg
       ELSE /\ r.err = NoErr
            /\ r.tg = tg
            /\ r.heap[tg.Toolsets[name]] = [heap[tg.Toolsets[name]] EXCEPT !.Enabled = TRUE]
            /\ \A p \in Ptrs \ {tg.Toolsets[name]} : r.heap[p] = heap[p]
            /\ EnableToolset(r.tg, r.heap, name) = r

\* EnableToolset just succeeded in a registry of two, the other one disabled
C8_Witness ==
  /\ last.op = "EnableToolset"
  /\ last.err = NoErr
  /\ Registered = {"a", "b"}
  /\ heap[tg.Toolsets["a"]].Enabled # heap[tg.Toolsets["b"]].Enabled

\* C9: everythingOn starts false; a call of EnableToolsets with a non-empty
\* list sets it to whether the list is ["all"], also when the call fails; no
\* other call changes it.
C9_Calls ==
  \A names \in NamesLists \ {<<>>} :
    EnableToolsets(tg, heap, names).tg.everythingOn = (names = <<"all">>)

C9_Step ==
  (last'.op # "EnableToolsets" \/ last'.err = ErrNoToolsetsSpecified)
    => tg'.everythingOn = tg.everythingOn

C9_EverythingOnOnlyByAll == ~tg.everythingOn /\ [](C9_Calls) /\ [][C9_Step]_vars

\* a failing EnableToolsets has just left everythingOn false while every
\* registered toolset is enabled
C9_Witness ==
  /\ last.op = "EnableToolsets"
  /\ last.err = ErrUnknownToolset("all")
  /\ ~tg.everythingOn
  /\ Cardinality(Registered) = 2
  /\ \A n \in Registered : heap[tg.Toolsets[n]].Enabled

\* C10: a toolset that is readOnly stays readOnly in every step; SetReadOnly
\* sets readOnly, changes nothing else and is idempotent.
C10_Step == \A p \in Ptrs : heap[p].readOnly => heap'[p].readOnly

C10_SetReadOnlyOnly ==
  \A p \in Ptrs :
    /\ SetReadOnly(heap[p]) = [heap[p] EXCEPT !.readOnly = TRUE]
    /\ SetReadOnly(SetReadOnly(heap[p])) = SetReadOnly(heap[p])

C10_ReadOnlyRatchet == [](C10_SetReadOnlyOnly) /\ [][C10_Step]_vars

\* a read-only toolset was just added to a group that is not read-only
C10_Witness ==
  /\ last.op = "AddToolset"
  /\ ~tg.readOnly
  /\ \E n \in Registered : heap[tg.Toolsets[n]].readOnly

\* ============================================== replacing a registered name
\* A registry in which a name is registered a second time while another name
\* is registered too needs three Toolset objects.
MaxOverwrite == 3                      \* Toolset objects ever constructed
OverwriteDescriptions == {"d1", "d2"}

DoNewToolsetOverwrite(name, description) ==
  /\ Len(heap) < MaxOverwrite
  /\ heap' = Append(heap, NewToolset(name, description))
  /\ last' = Call("NewToolset", NoErr, <<>>)
  /\ UNCHANGED <<tg, req, mem, pc, calls, locals>>

NextOverwrite ==
  \/ \E name \in ToolsetNames, d \in OverwriteDescriptions :
       DoNewToolsetOverwrite(name, d)
  \/ \E p \in Ptrs : TotalTools = 0 /\ DoAddReadTools(p, <<"t1">>)
  \/ \E p \in Ptrs : DoAddToolset(p)
  \/ \E name \in ToolsetNames : DoEnableToolset(name)

SpecOverwrite == Init /\ [][NextOverwrite]_vars

\* C11: AddToolset(ts2) on a name that is already a key leaves the number of
\* entries as it was and maps the name to ts2, which keeps its own
\* description, tools and Enabled; the entries under other names, and the
\* toolsets they point to, are unchanged.
C11_AddToolsetOverwrites ==
  \A p \in Ptrs :
    heap[p].Name \in Registered =>
      LET r == AddToolset(tg, heap, p)
          name == heap[p].Name
      IN /\ Cardinality(DOMAIN r.tg.Toolsets) = Cardinality(Registered)
         /\ r.tg.Toolsets[name] = p
         /\ r.heap[p].Description = heap[p].Description
         /\ r.heap[p].readTools = heap[p].readTools
         /\ r.heap[p].writeTools = heap[p].writeTools
         /\ r.heap[p].Enabled = heap[p].Enabled
         /\ \A n \in Registered \ {name} :
              /\ n \in DOMAIN r.tg.Toolsets
              /\ r.tg.Toolsets[n] = tg.Toolsets[n]
              /\ r.heap[tg.Toolsets[n]] = heap[tg.Toolsets[n]]

\* both names were registered and enabled before the AddToolset that just
\* returned; name "a" now maps to a disabled toolset without tools and with
\* its own description, while the toolset it replaced is enabled and holds a
\* tool
C11_Witness ==
  /\ last.op = "AddToolset"
  /\ Registered = {"a", "b"}
  /\ heap[tg.Toolsets["b"]].Enabled
  /\ LET p == tg.Toolsets["a"]
     IN /\ ~heap[p].Enabled
        /\ heap[p].readTools = <<>>
        /\ \E q \in Ptrs \ {p} :
             /\ heap[q].Name = "a"
             /\ heap[q].Enabled
             /\ heap[q].readTools # <<>>
             /\ heap[q].Description # heap[p].Description

\* ============================================== ToolsetGroup.RegisterTools
\* what the toolset registered under n is to contribute
C12_Active(n) ==
  LET ts == heap[tg.Toolsets[n]]
  IN IF ts.Enabled THEN GetActiveTools(ts) ELSE <<>>

\* the number of tools the toolsets before position i of order contribute
RECURSIVE C12_Offset(_, _)
C12_Offset(order, i) ==
  IF i = 1 THEN 0
  ELSE C12_Offset(order, i - 1) + Len(C12_Active(order[i - 1]))

\* out is, toolset after toolset in the order of the iteration, the active
\* tools of the enabled toolsets and nothing else
C12_IsPushOf(out, order) ==
  /\ Len(out) = C12_Offset(order, Len(order) + 1)
  /\ \A i \in 1..Len(order) :
       SubSeq(out, C12_Offset(order, i) + 1, C12_Offset(order, i + 1))
         = C12_Active(order[i])

C12_Pushes ==
  \A order \in Orders(Registered) :
    C12_IsPushOf(RegisterTools(tg, heap, order, <<>>), order)

C12_Step ==
  last'.op = "RegisterTools" =>
    /\ UNCHANGED <<heap, tg>>
    /\ \E order \in Orders(Registered) : C12_IsPushOf(last'.out, order)

\* C12: ToolsetGroup.RegisterTools pushes to the server, for each enabled
\* toolset of the registry, exactly its GetActiveTools() in order and nothing
\* for a disabled one; the call changes neither the registry nor a toolset.
C12_RegisterToolsPushesActive == [](C12_Pushes) /\ [][C12_Step]_vars

\* RegisterTools has just pushed the one tool of the enabled toolset and
\* withheld the tool of the disabled one
C12_Witness ==
  /\ last.op = "RegisterTools"
  /\ Registered = {"a", "b"}
  /\ LET ta == heap[tg.Toolsets["a"]]
         tb == heap[tg.Toolsets["b"]]
     IN /\ ta.Enabled /\ ~tb.Enabled
        /\ Len(ta.readTools) = 1
        /\ Len(tb.readTools) = 1
        /\ last.out = ta.readTools
        /\ ta.readTools # tb.readTools

\* ============================================== slices and backing arrays
\* GetActiveTools at the level of Go slices.  mem is the sequence of backing
\* arrays ever allocated, an array being the sequence of its cells; a slice
\* is [arr, len, cap] with arr the index of its array in mem (0: the slice
\* owns no cell, as nil and zero-capacity slices do).  The one Toolset of
\* this specification is heap[1], its readTools and writeTools are slices.
MaxArrays == 3        \* backing arrays ever allocated
MaxCells  == 2        \* tools the toolset holds, read and write together
MaxSlack  == 1        \* spare capacity a growing append may allocate

ZeroTool == ""        \* the zero server.ServerTool
NilSlice == [arr |-> 0, len |-> 0, cap |-> 0]
Zeros(n) == [i \in 1..n |-> ZeroTool]

\* the elements of slice sl
Contents(m, sl) == IF sl.len = 0 THEN <<>> ELSE SubSeq(m[sl.arr], 1, sl.len)

\* make([]T, n, c)
MakeMem(m, n, c) ==
  IF c = 0 THEN [mem |-> m, out |-> NilSlice]
  ELSE [mem |-> Append(m, Zeros(c)),
        out |-> [arr |-> Len(m) + 1, len |-> n, cap |-> c]]

\* copy(dst, src)
CopyMem(m, dst, src) ==
  IF dst.len = 0 \/ src.len = 0 THEN m
  ELSE [m EXCEPT ![dst.arr] =
          [i \in 1..Len(@) |->
             IF i <= dst.len /\ i <= src.len THEN m[src.arr][i] ELSE @[i]]]

\* append(sl, xs...): in place while the capacity lasts, else into a new
\* array of capacity c, which the runtime chooses no smaller than needed
AppendMem(m, sl, xs, c) ==
  LET n == sl.len + Len(xs)
  IN IF Len(xs) = 0 THEN [mem |-> m, out |-> sl]
     ELSE IF n <= sl.cap
     THEN [mem |-> [m EXCEPT ![sl.arr] =
                      [i \in 1..Len(@) |->
                         IF i > sl.len /\ i <= n THEN xs[i - sl.len] ELSE @[i]]],
           out |-> [sl EXCEPT !.len = n]]
     ELSE [mem |-> Append(m, Contents(m, sl) \o xs \o Zeros(c - n)),
           out |-> [arr |-> Len(m) + 1, len |-> n, cap |-> c]]

NewToolsetMem(name, description) ==
  [Name |-> name, Description |-> description, Enabled |-> FALSE,
   readOnly |-> FALSE, writeTools |-> NilSlice, readTools |-> NilSlice]

\* faulty variant: a read-only toolset hands out its own readTools
GetActiveToolsMemAlias(m, t) ==
  IF ~t.Enabled THEN [mem |-> m, out |-> NilSlice]
  ELSE IF t.readOnly THEN [mem |-> m, out |-> t.readTools]
  ELSE LET a == MakeMem(m, 0, t.readTools.len + t.writeTools.len)
           b == AppendMem(a.mem, a.out, Contents(m, t.readTools), a.out.cap)
       IN AppendMem(b.mem, b.out, Contents(m, t.writeTools), a.out.cap)

GetActiveToolsMem(m, t) ==
  IF ~t.Enabled THEN [mem |-> m, out |-> NilSlice]
  ELSE IF t.readOnly
  THEN LET a == MakeMem(m, t.readTools.len, t.readTools.len)
       IN [mem |-> CopyMem(a.mem, a.out, t.readTools), out |-> a.out]
  ELSE LET a == MakeMem(m, 0, t.readTools.len + t.writeTools.len)
           b == AppendMem(a.mem, a.out, Contents(m, t.readTools), a.out.cap)
       IN AppendMem(b.mem, b.out, Contents(m, t.writeTools), a.out.cap)

InitSlices ==
  /\ heap = <<NewToolsetMem("a", "d1")>>
  /\ tg = NewToolsetGroup(FALSE)
  /\ last = Call("NewToolset", NoErr, NilSlice)
  /\ req = EmptyMap
  /\ mem = <<>>
  /\ pc = ""
  /\ calls = <<>>
  /\ locals = EmptyMap

CellsHeld == heap[1].readTools.len + heap[1].writeTools.len

DoAddReadToolsMem(tools, slack) ==
  LET r == AppendMem(mem, heap[1].readTools, tools,
                     heap[1].readTools.len + Len(tools) + slack)
  IN /\ CellsHeld + Len(tools) <= MaxCells
     /\ Len(r.mem) <= MaxArrays
     /\ mem' = r.mem
     /\ heap' = [heap EXCEPT ![1].readTools = r.out]
     /\ last' = Call("AddReadTools", NoErr, NilSlice)
     /\ UNCHANGED <<tg, req, pc, calls, locals>>

DoAddWriteToolsMem(tools, slack) ==
  LET r == AppendMem(mem, heap[1].writeTools, tools,
                     heap[1].writeTools.len + Len(tools) + slack)
  IN /\ CellsHeld + Len(tools) <= MaxCells
     /\ Len(r.mem) <= MaxArrays
     /\ mem' = r.mem
     /\ heap' = [heap EXCEPT ![1].writeTools = r.out]
     /\ last' = Call("AddWriteTools", NoErr, NilSlice)
     /\ UNCHANGED <<tg, req, pc, calls, locals>>

\* ts.Enabled = true, as EnableToolset does
DoEnableMem ==
  /\ heap' = [heap EXCEPT ![1].Enabled = TRUE]
  /\ last' = Call("EnableToolset", NoErr, NilSlice)
  /\ UNCHANGED <<tg, req, mem, pc, calls, locals>>

DoSetReadOnlyMem ==
  /\ heap' = [heap EXCEPT ![1] = SetReadOnly(@)]
  /\ last' = Call("SetReadOnly", NoErr, NilSlice)
  /\ UNCHANGED <<tg, req, mem, pc, calls, locals>>

\* the caller keeps the returned slice: it is last.out
DoGetActiveToolsMem ==
  LET r == GetActiveToolsMem(mem, heap[1])
  IN /\ Len(r.mem) <= MaxArrays
     /\ mem' = r.mem
     /\ last' = Call("GetActiveTools", NoErr, r.out)
     /\ UNCHANGED <<heap, tg, req, pc, calls, locals>>

\* the calls after which last.out is the slice the caller holds
HeldOps == {"GetActiveTools", "active[i] = tool", "active = append(active, tool)"}

\* the caller assigns to an element of the slice it holds
CallerSet(i, tool) ==
  /\ last.op \in HeldOps
  /\ i \in 1..last.out.len
  /\ mem' = [mem EXCEPT ![last.out.arr][i] = tool]
  /\ last' = Call("active[i] = tool", NoErr, last.out)
  /\ UNCHANGED <<heap, tg, req, pc, calls, locals>>

\* the caller appends to the slice it holds
CallerAppend(tool, slack) ==
  LET r == AppendMem(mem, last.out, <<tool>>, last.out.len + 1 + slack)
  IN /\ last.op \in HeldOps
     /\ Len(r.mem) <= MaxArrays
     /\ mem' = r.mem
     /\ last' = Call("active = append(active, tool)", NoErr, r.out)
     /\ UNCHANGED <<heap, tg, req, pc, calls, locals>>

NextSlices ==
  \/ \E tools \in SeqsOf(Tools, 0, MaxCells), slack \in 0..MaxSlack :
       DoAddReadToolsMem(tools, slack)
  \/ \E tools \in SeqsOf(Tools, 0, MaxCells), slack \in 0..MaxSlack :
       DoAddWriteToolsMem(tools, slack)
  \/ DoEnableMem
  \/ DoSetReadOnlyMem
  \/ DoGetActiveToolsMem
  \/ \E i \in 1..MaxCells, tool \in Tools : CallerSet(i, tool)
  \/ \E tool \in Tools, slack \in 0..MaxSlack : CallerAppend(tool, slack)

SpecSlices == InitSlices /\ [][NextSlices]_vars

\* the toolset as a caller reads it: the flags and the elements of its slices
View(t, m) ==
  [Enabled |-> t.Enabled, readOnly |-> t.readOnly,
   readTools |-> Contents(m, t.readTools),
   writeTools |-> Contents(m, t.writeTools)]

\* the elements GetActiveTools returns when called in memory m
ActiveNow(t, m) ==
  LET r == GetActiveToolsMem(m, t) IN Contents(r.mem, r.out)

\* a second call, made right after a first one, returns the same elements,
\* and the slice of the first call still holds them
C13_Twice ==
  LET r1 == GetActiveToolsMem(mem, heap[1])
      r2 == GetActiveToolsMem(r1.mem, heap[1])
  IN /\ Contents(r1.mem, r1.out) = Contents(r2.mem, r2.out)
     /\ Contents(r2.mem, r1.out) = Contents(r1.mem, r1.out)
     /\ View(heap[1], r2.mem) = View(heap[1], mem)

\* the call writes no field and no cell of an array that existed before it
C13_CallStep ==
  last'.op = "GetActiveTools" =>
    /\ heap' = heap
    /\ \A a \in 1..Len(mem) : mem'[a] = mem[a]
    /\ Contents(mem', last'.out) = ActiveNow(heap[1], mem)

\* what the caller does to the slice it holds reaches neither the toolset
\* nor the result of a later call
C13_CallerStep ==
  last'.op \in HeldOps \ {"GetActiveTools"} =>
    /\ View(heap'[1], mem') = View(heap[1], mem)
    /\ ActiveNow(heap'[1], mem') = ActiveNow(heap[1], mem)

\* C13: GetActiveTools is a pure read that returns an independent sequence:
\* the call leaves Enabled, readOnly, readTools and writeTools as they were,
\* two consecutive calls return equal sequences, and assigning or appending
\* to a returned sequence changes neither the toolset's readTools/writeTools
\* nor what a later call returns.
C13_GetActiveToolsIndependent ==
  [](C13_Twice) /\ [][C13_CallStep /\ C13_CallerStep]_vars

\* the caller has just overwritten an element of the slice a read-only,
\* enabled toolset returned: the slice and readTools now differ
C13_Witness ==
  /\ last.op = "active[i] = tool"
  /\ heap[1].Enabled /\ heap[1].readOnly
  /\ last.out.len = heap[1].readTools.len
  /\ last.out.len = MaxCells
  /\ Contents(mem, last.out) # Contents(mem, heap[1].readTools)

\* ============================================== parameter helpers (package gitlab)
\* An argument of a request is a Go value held in an interface: its dynamic
\* type (as %T prints it) and its payload.  A string is the sequence of its
\* characters, a float64 is counted in halves (n = 85 is 42.5), and int is a
\* two's complement integer of IntBits bits.
IntBits == 10
MaxInt == 2^(IntBits - 1) - 1
MinInt == -(2^(IntBits - 1))

DefaultPerPage == 20
MaxPerPage == 100

StringValue(s)  == [type |-> "string",  s |-> s,    n |-> 0, b |-> FALSE]
FloatValue(h)   == [type |-> "float64", s |-> <<>>, n |-> h, b |-> FALSE]
IntValue(n)     == [type |-> "int",     s |-> <<>>, n |-> n, b |-> FALSE]
BoolValue(b)    == [type |-> "bool",    s |-> <<>>, n |-> 0, b |-> b]
NilValue        == [type |-> "<nil>",   s |-> <<>>, n |-> 0, b |-> FALSE]
ListValue       == [type |-> "[]interface {}", s |-> <<>>, n |-> 0, b |-> FALSE]

\* the type arguments the helpers are instantiated with
TypeArgs == {"string", "float64", "int", "bool", "any"}

\* var zero T
ZeroOf(T) ==
  CASE T = "string"  -> StringValue(<<>>)
    [] T = "float64" -> FloatValue(0)
    [] T = "int"     -> IntValue(0)
    [] T = "bool"    -> BoolValue(FALSE)
    [] T = "any"     -> NilValue

\* value, ok := val.(T): an interface type is satisfied by every value but
\* the nil interface, a concrete type by the values of that dynamic type
TypeAssert(val, T) ==
  LET ok == IF T = "any" THEN val.type # "<nil>" ELSE val.type = T
  IN [value |-> IF ok THEN val ELSE ZeroOf(T), ok |-> ok]

ErrMissing(p) == <<"missing required parameter: ", p>>
ErrNotOfType(p, zero, val) ==
  <<"parameter '", p, "' is not of expected type ", zero.type, ", got ", val.type>>
ErrZeroValue(p) == <<"required parameter '", p, "' cannot be empty or zero value">>
ErrNotWhole(p, h) ==
  <<"parameter '", p, "' must be a whole number, got ", ToString(h), "/2">>
ErrNotIntString(p, v, e) ==
  <<"parameter '", p, "' must be a valid integer string, got '">> \o v \o <<"': ", e>>
ErrNotConvertible(p, val) ==
  <<"parameter '", p, "' must be convertible to an integer, got ", val.type>>
ErrNotBool(p, val) ==
  <<"parameter '", p, "' must be a boolean (or boolean-like string), got type ", val.type>>
ErrInvalidPage(e) == <<"invalid 'page' parameter: ">> \o e
ErrInvalidPerPage(e) == <<"invalid 'per_page' parameter: ">> \o e

\* val is the zero value of its own dynamic type
IsZeroValue(val) == val.type # "[]interface {}" /\ val.s = <<>> /\ val.n = 0 /\ ~val.b

\* faulty variant: the zero value is refused before the type is looked at
requiredParamZeroFirst(T, r, p) ==
  IF p \notin DOMAIN r THEN [out |-> ZeroOf(T), err |-> ErrMissing(p)]
  ELSE LET val == r[p]
           a == TypeAssert(val, T)
       IN IF IsZeroValue(val) THEN [out |-> ZeroOf(T), err |-> ErrZeroValue(p)]
          ELSE IF ~a.ok THEN [out |-> ZeroOf(T), err |-> ErrNotOfType(p, ZeroOf(T), val)]
          ELSE [out |-> a.value, err |-> NoErr]

requiredParam(T, r, p) ==
  IF p \notin DOMAIN r THEN [out |-> ZeroOf(T), err |-> ErrMissing(p)]
  ELSE LET val == r[p]
           a == TypeAssert(val, T)
       IN IF ~a.ok THEN [out |-> ZeroOf(T), err |-> ErrNotOfType(p, ZeroOf(T), val)]
          ELSE IF a.value = ZeroOf(T)
          THEN [out |-> ZeroOf(T), err |-> ErrZeroValue(p)]
          ELSE [out |-> a.value, err |-> NoErr]

OptionalParam(T, r, p) ==
  IF p \notin DOMAIN r THEN [out |-> ZeroOf(T), err |-> NoErr]
  ELSE LET val == r[p]
           a == TypeAssert(val, T)
       IN IF ~a.ok THEN [out |-> ZeroOf(T), err |-> ErrNotOfType(p, ZeroOf(T), val)]
          ELSE [out |-> a.value, err |-> NoErr]

\* faulty variant: a value of another type is reported as absent
OptionalParamOKAbsentOnMismatch(T, r, p) ==
  IF p \notin DOMAIN r THEN [out |-> ZeroOf(T), ok |-> FALSE, err |-> NoErr]
  ELSE LET val == r[p]
           a == TypeAssert(val, T)
       IN IF ~a.ok
          THEN [out |-> a.value, ok |-> FALSE, err |-> ErrNotOfType(p, a.value, val)]
          ELSE [out |-> a.value, ok |-> TRUE, err |-> NoErr]

OptionalParamOK(T, r, p) ==
  IF p \notin DOMAIN r THEN [out |-> ZeroOf(T), ok |-> FALSE, err |-> NoErr]
  ELSE LET val == r[p]
           a == TypeAssert(val, T)
       IN IF ~a.ok
          THEN [out |-> a.value, ok |-> TRUE, err |-> ErrNotOfType(p, a.value, val)]
          ELSE [out |-> a.value, ok |-> TRUE, err |-> NoErr]

\* ---------------------------------------------------------------- conversions
DigitChars == <<"0", "1", "2", "3", "4", "5", "6", "7", "8", "9">>
UpperChars == <<"A", "B", "C", "D", "E", "F", "G", "H", "I", "J", "K", "L", "M",
                "N", "O", "P", "Q", "R", "S", "T", "U", "V", "W", "X", "Y", "Z">>
LowerChars == <<"a", "b", "c", "d", "e", "f", "g", "h", "i", "j", "k", "l", "m",
                "n", "o", "p", "q", "r", "s", "t", "u", "v", "w", "x", "y", "z">>
IndexOf(c, chars) == CHOOSE i \in 1..Len(chars) : chars[i] = c
IsIn(c, chars) == \E i \in 1..Len(chars) : chars[i] = c

\* the value of a non-empty sequence of decimal digits
RECURSIVE DigitsValue(_)
DigitsValue(ds) ==
  IF ds = <<>> THEN 0
  ELSE 10 * DigitsValue(SubSeq(ds, 1, Len(ds) - 1))
       + (IndexOf(ds[Len(ds)], DigitChars) - 1)

\* strconv.Atoi: an optional sign, then decimal digits only, within int
Atoi(s) ==
  LET signed == s # <<>> /\ s[1] \in {"+", "-"}
      ds == IF signed THEN Tail(s) ELSE s
  IN IF ds = <<>> \/ \E i \in 1..Len(ds) : ~IsIn(ds[i], DigitChars)
     THEN [n |-> 0, err |-> "invalid syntax"]
     ELSE LET m == DigitsValue(ds)
              n == IF s[1] = "-" THEN -m ELSE m
          IN IF n > MaxInt THEN [n |-> MaxInt, err |-> "value out of range"]
             ELSE IF n < MinInt THEN [n |-> MinInt, err |-> "value out of range"]
             ELSE [n |-> n, err |-> ""]

\* strings.ToLower on ASCII
ToLower(s) ==
  [i \in 1..Len(s) |->
     IF IsIn(s[i], UpperChars) THEN LowerChars[IndexOf(s[i], UpperChars)] ELSE s[i]]

\* the builds: what int(v) yields for a float64 outside the range of int is
\* implementation-specific
Archs == {"amd64", "arm64"}

\* int(v) for the float64 of h halves: truncation towards zero; out of range
\* amd64 yields the smallest int, arm64 the nearest one
FloatToInt(h, arch) ==
  LET t == IF h >= 0 THEN h \div 2 ELSE -((-h) \div 2)
  IN IF t > MaxInt THEN (IF arch = "amd64" THEN MinInt ELSE MaxInt)
     ELSE IF t < MinInt THEN MinInt
     ELSE t

\* float64(i), in halves
IntToFloat(i) == 2 * i

\* ---------------------------------------------------------------- typed helpers
OptionalIntParam(r, p, arch) ==
  LET o == OptionalParamOK("any", r, p)
      val == o.out
  IN IF o.err # NoErr THEN [out |-> 0, err |-> o.err]
     ELSE IF ~o.ok THEN [out |-> 0, err |-> NoErr]
     ELSE CASE val.type = "float64" ->
                 IF val.n # IntToFloat(FloatToInt(val.n, arch))
                 THEN [out |-> 0, err |-> ErrNotWhole(p, val.n)]
                 ELSE [out |-> FloatToInt(val.n, arch), err |-> NoErr]
            [] val.type = "int" -> [out |-> val.n, err |-> NoErr]
            [] val.type = "string" ->
                 IF val.s = <<>> THEN [out |-> 0, err |-> NoErr]
                 ELSE LET a == Atoi(val.s)
                      IN IF a.err # ""
                         THEN [out |-> 0, err |-> ErrNotIntString(p, val.s, a.err)]
                         ELSE [out |-> a.n, err |-> NoErr]
            [] OTHER -> [out |-> 0, err |-> ErrNotConvertible(p, val)]

\* faulty variant: a value that cannot be read yields the default
OptionalIntParamWithDefaultOnError(r, p, defaultValue, arch) ==
  LET v == OptionalIntParam(r, p, arch)
  IN IF v.err # NoErr \/ v.out = 0 THEN [out |-> defaultValue, err |-> NoErr]
     ELSE [out |-> v.out, err |-> NoErr]

OptionalIntParamWithDefault(r, p, defaultValue, arch) ==
  LET v == OptionalIntParam(r, p, arch)
  IN IF v.err # NoErr THEN [out |-> 0, err |-> v.err]
     ELSE IF v.out = 0
     THEN (IF ~OptionalParamOK("any", r, p).ok
           THEN [out |-> defaultValue, err |-> NoErr]
           ELSE [out |-> defaultValue, err |-> NoErr])
     ELSE [out |-> v.out, err |-> NoErr]

\* a *bool: <<>> is nil, <<b>> points to b
TrueWords  == {<<"t", "r", "u", "e">>, <<"1">>, <<"t">>, <<"y", "e", "s">>, <<"y">>}
FalseWords == {<<"f", "a", "l", "s", "e">>, <<"0">>, <<"f">>, <<"n", "o">>, <<"n">>}

\* faulty variant: the words are matched as they are written
OptionalBoolParamCaseSensitive(r, p) ==
  IF p \notin DOMAIN r \/ r[p] = NilValue THEN [out |-> <<>>, err |-> NoErr]
  ELSE LET rawVal == r[p]
       IN IF rawVal.type = "bool" THEN [out |-> <<rawVal.b>>, err |-> NoErr]
          ELSE IF rawVal.type = "string" /\ rawVal.s \in TrueWords
          THEN [out |-> <<TRUE>>, err |-> NoErr]
          ELSE IF rawVal.type = "string" /\ rawVal.s \in FalseWords
          THEN [out |-> <<FALSE>>, err |-> NoErr]
          ELSE [out |-> <<>>, err |-> ErrNotBool(p, rawVal)]

OptionalBoolParam(r, p) ==
  IF p \notin DOMAIN r \/ r[p] = NilValue THEN [out |-> <<>>, err |-> NoErr]
  ELSE LET rawVal == r[p]
       IN IF rawVal.type = "bool" THEN [out |-> <<rawVal.b>>, err |-> NoErr]
          ELSE IF rawVal.type = "string" /\ ToLower(rawVal.s) \in TrueWords
          THEN [out |-> <<TRUE>>, err |-> NoErr]
          ELSE IF rawVal.type = "string" /\ ToLower(rawVal.s) \in FalseWords
          THEN [out |-> <<FALSE>>, err |-> NoErr]
          ELSE [out |-> <<>>, err |-> ErrNotBool(p, rawVal)]

\* faulty variant: per_page above the maximum is passed on
OptionalPaginationParamsNoMax(r, arch) ==
  LET pg == OptionalIntParamWithDefault(r, "page", 1, arch)
      pp == OptionalIntParamWithDefault(r, "per_page", DefaultPerPage, arch)
  IN IF pg.err # NoErr
     THEN [page |-> 0, perPage |-> 0, err |-> ErrInvalidPage(pg.err)]
     ELSE IF pp.err # NoErr
     THEN [page |-> 0, perPage |-> 0, err |-> ErrInvalidPerPage(pp.err)]
     ELSE [page    |-> IF pg.out < 1 THEN 1 ELSE pg.out,
           perPage |-> IF pp.out < 1 THEN DefaultPerPage ELSE pp.out,
           err     |-> NoErr]

\* faulty variant: per_page is read, and reported, before page
OptionalPaginationParamsPerPageFirst(r, arch) ==
  LET pg == OptionalIntParamWithDefault(r, "page", 1, arch)
      pp == OptionalIntParamWithDefault(r, "per_page", DefaultPerPage, arch)
  IN IF pp.err # NoErr
     THEN [page |-> 0, perPage |-> 0, err |-> ErrInvalidPerPage(pp.err)]
     ELSE IF pg.err # NoErr
     THEN [page |-> 0, perPage |-> 0, err |-> ErrInvalidPage(pg.err)]
     ELSE [page    |-> IF pg.out < 1 THEN 1 ELSE pg.out,
           perPage |-> IF pp.out < 1 THEN DefaultPerPage
                       ELSE IF pp.out > MaxPerPage THEN MaxPerPage ELSE pp.out,
           err     |-> NoErr]

OptionalPaginationParams(r, arch) ==
  LET pg == OptionalIntParamWithDefault(r, "page", 1, arch)
      pp == OptionalIntParamWithDefault(r, "per_page", DefaultPerPage, arch)
  IN IF pg.err # NoErr
     THEN [page |-> 0, perPage |-> 0, err |-> ErrInvalidPage(pg.err)]
     ELSE IF pp.err # NoErr
     THEN [page |-> 0, perPage |-> 0, err |-> ErrInvalidPerPage(pp.err)]
     ELSE [page    |-> IF pg.out < 1 THEN 1 ELSE pg.out,
           perPage |-> IF pp.out < 1 THEN DefaultPerPage
                       ELSE IF pp.out > MaxPerPage THEN MaxPerPage ELSE pp.out,
           err     |-> NoErr]

\* ---------------------------------------------------------------- requests
ParamKeys == {"page", "per_page"}

ParamStrings ==
  {<<>>, <<"0">>, <<"1">>, <<"7">>, <<"-", "3">>, <<"+", "5">>, <<"1", "5", "0">>,
   <<"9", "9", "9", "9">>, <<"a", "b", "c">>, <<"4", ".", "5">>, <<"-">>,
   <<"t", "r", "u", "e">>, <<"Y", "E", "S">>, <<"N", "o">>, <<"f">>,
   <<"m", "a", "y", "b", "e">>}
ParamFloats == {0, 2, 84, 85, -10, -11, 300, 9000}      \* in halves
ParamInts == {0, 1, 55, -5, 100, 101, 150}

ParamValues ==
  {StringValue(s) : s \in ParamStrings} \cup {FloatValue(h) : h \in ParamFloats}
    \cup {IntValue(n) : n \in ParamInts} \cup {BoolValue(b) : b \in BOOLEAN}
    \cup {NilValue, ListValue}

\* r.Params.Arguments
Requests == UNION {[K -> ParamValues] : K \in SUBSET ParamKeys}

ParamDefaults == {1, DefaultPerPage}

InitParams ==
  /\ heap = <<>>
  /\ tg = NewToolsetGroup(FALSE)
  /\ mem = <<>>
  /\ pc = ""
  /\ calls = <<>>
  /\ locals = EmptyMap
  /\ req \in Requests
  /\ last = Call("CallToolRequest", NoErr, <<>>)

DoRequiredParam(T, p) ==
  LET r == requiredParam(T, req, p)
  IN /\ last' = Call("requiredParam", r.err, [T |-> T, p |-> p, value |-> r.out])
     /\ UNCHANGED <<heap, tg, req, mem, pc, calls, locals>>

DoOptionalParam(T, p) ==
  LET r == OptionalParam(T, req, p)
  IN /\ last' = Call("OptionalParam", r.err, [T |-> T, p |-> p, value |-> r.out])
     /\ UNCHANGED <<heap, tg, req, mem, pc, calls, locals>>

DoOptionalParamOK(T, p) ==
  LET r == OptionalParamOK(T, req, p)
  IN /\ last' = Call("OptionalParamOK", r.err,
                     [T |-> T, p |-> p, value |-> r.out, ok |-> r.ok])
     /\ UNCHANGED <<heap, tg, req, mem, pc, calls, locals>>

DoOptionalIntParam(p, arch) ==
  LET r == OptionalIntParam(req, p, arch)
  IN /\ last' = Call("OptionalIntParam", r.err, [p |-> p, value |-> r.out])
     /\ UNCHANGED <<heap, tg, req, mem, pc, calls, locals>>

DoOptionalIntParamWithDefault(p, defaultValue, arch) ==
  LET r == OptionalIntParamWithDefault(req, p, defaultValue, arch)
  IN /\ last' = Call("OptionalIntParamWithDefault", r.err,
                     [p |-> p, defaultValue |-> defaultValue, value |-> r.out])
     /\ UNCHANGED <<heap, tg, req, mem, pc, calls, locals>>

DoOptionalBoolParam(p) ==
  LET r == OptionalBoolParam(req, p)
  IN /\ last' = Call("OptionalBoolParam", r.err, [p |-> p, value |-> r.out])
     /\ UNCHANGED <<heap, tg, req, mem, pc, calls, locals>>

DoOptionalPaginationParams(arch) ==
  LET r == OptionalPaginationParams(req, arch)
  IN /\ last' = Call("OptionalPaginationParams", r.err,
                     [page |-> r.page, perPage |-> r.perPage])
     /\ UNCHANGED <<heap, tg, req, mem, pc, calls, locals>>

NextParams ==
  \/ \E T \in TypeArgs, p \in ParamKeys : DoRequiredParam(T, p)
  \/ \E T \in TypeArgs, p \in ParamKeys : DoOptionalParam(T, p)
  \/ \E T \in TypeArgs, p \in ParamKeys : DoOptionalParamOK(T, p)
  \/ \E p \in ParamKeys, arch \in Archs : DoOptionalIntParam(p, arch)
  \/ \E p \in ParamKeys, d \in ParamDefaults, arch \in Archs :
       DoOptionalIntParamWithDefault(p, d, arch)
  \/ \E p \in ParamKeys : DoOptionalBoolParam(p)
  \/ \E arch \in Archs : DoOptionalPaginationParams(arch)

SpecParams == InitParams /\ [][NextParams]_vars

\* ============================================== claims on the helpers
Present(p) == p \in DOMAIN req
\* the value under p has type T
HasType(p, T) == req[p].type = T \/ (T = "any" /\ req[p] # NilValue)

\* C14: requiredParam[T] checks in this order: an absent key gives the
\* 'missing required parameter' error; a value not of type T the type-mismatch
\* error naming both types, also when it is a zero value of another type; a
\* value of type T equal to T's zero value the 'cannot be empty or zero value'
\* error; any other value is returned unchanged without error.  Every error
\* comes with T's zero value.
C14_RequiredParamChecks ==
  \A T \in TypeArgs, p \in ParamKeys :
    LET r == requiredParam(T, req, p)
    IN /\ r.err = (IF ~Present(p) THEN ErrMissing(p)
                   ELSE IF ~HasType(p, T) THEN ErrNotOfType(p, ZeroOf(T), req[p])
                   ELSE IF req[p] = ZeroOf(T) THEN ErrZeroValue(p)
                   ELSE NoErr)
       /\ r.out = (IF r.err = NoErr THEN req[p] ELSE ZeroOf(T))

\* requiredParam[string] has just refused the int 0, a zero value of another
\* type, with the type-mismatch error
C14_Witness ==
  /\ last.op = "requiredParam"
  /\ last.out.T = "string"
  /\ Present(last.out.p)
  /\ req[last.out.p] = IntValue(0)
  /\ last.err = ErrNotOfType(last.out.p, StringValue(<<>>), IntValue(0))
  /\ last.out.value = StringValue(<<>>)

\* C15: OptionalParamOK[T] returns (zero, false, nil) for an absent key,
\* (value, true, nil) for a value of type T, an empty string or a zero number
\* included, and (zero, true, type-mismatch error) for a value of another
\* type: the presence flag is true exactly when the key exists.
\* OptionalParam[T] returns the same value and error.
C15_OptionalParamOK ==
  \A T \in TypeArgs, p \in ParamKeys :
    LET o == OptionalParamOK(T, req, p)
        q == OptionalParam(T, req, p)
    IN /\ o.ok = Present(p)
       /\ o.err = (IF Present(p) /\ ~HasType(p, T)
                   THEN ErrNotOfType(p, ZeroOf(T), req[p]) ELSE NoErr)
       /\ o.out = (IF Present(p) /\ HasType(p, T) THEN req[p] ELSE ZeroOf(T))
       /\ q.out = o.out
       /\ q.err = o.err

\* OptionalParamOK[string] has just reported a float64 as present, with the
\* type-mismatch error, while the other key holds an empty string that
\* OptionalParamOK[string] accepts
C15_Witness ==
  /\ last.op = "OptionalParamOK"
  /\ last.out.T = "string"
  /\ last.out.p = "page"
  /\ Present("page") /\ req["page"].type = "float64"
  /\ last.out.ok
  /\ last.err # NoErr
  /\ Present("per_page") /\ req["per_page"] = StringValue(<<>>)
  /\ OptionalParamOK("string", req, "per_page")
       = [out |-> StringValue(<<>>), ok |-> TRUE, err |-> NoErr]

\* C16: OptionalIntParam returns (0, nil) for an absent key or an empty
\* string; (n, nil) for a float without fractional part equal to n, for the
\* int n and for a string that parses as n; the 'must be a whole number' error
\* for a float with a fractional part; the 'valid integer string' error for
\* any other non-empty string; the 'must be convertible to an integer' error
\* for a value of any other type (boolean, null, list); 0 with every error.
C16_OptionalIntParamCases ==
  \A p \in ParamKeys, arch \in Archs :
    LET r == OptionalIntParam(req, p, arch)
        v == req[p]
    IN /\ ~Present(p) => r = [out |-> 0, err |-> NoErr]
       /\ Present(p) =>
            /\ v.type = "string" /\ v.s = <<>> => r = [out |-> 0, err |-> NoErr]
            /\ v.type = "float64" /\ v.n % 2 = 0 /\ v.n \div 2 \in MinInt..MaxInt
                 => r = [out |-> v.n \div 2, err |-> NoErr]
            /\ v.type = "int" => r = [out |-> v.n, err |-> NoErr]
            /\ v.type = "string" /\ v.s # <<>> /\ Atoi(v.s).err = ""
                 => r = [out |-> Atoi(v.s).n, err |-> NoErr]
            /\ v.type = "float64" /\ v.n % 2 # 0
                 => r = [out |-> 0, err |-> ErrNotWhole(p, v.n)]
            /\ v.type = "string" /\ v.s # <<>> /\ Atoi(v.s).err # ""
                 => r = [out |-> 0, err |-> ErrNotIntString(p, v.s, Atoi(v.s).err)]
            /\ v.type \notin {"string", "float64", "int"}
                 => r = [out |-> 0, err |-> ErrNotConvertible(p, v)]
       /\ r.err # NoErr => r.out = 0

\* OptionalIntParam has just answered a null with the type-mismatch error
\* of OptionalParamOK
C16_Witness ==
  /\ last.op = "OptionalIntParam"
  /\ Present(last.out.p)
  /\ req[last.out.p] = NilValue
  /\ last.err = ErrNotOfType(last.out.p, NilValue, NilValue)
  /\ last.out.value = 0

EqualFold(s, w) ==
  /\ Len(s) = Len(w)
  /\ \A i \in 1..Len(s) :
       \/ s[i] = w[i]
       \/ \E k \in 1..Len(LowerChars) :
            {s[i], w[i]} = {LowerChars[k], UpperChars[k]}

\* C18: OptionalBoolParam returns (nil, nil) for an absent key or a null;
\* a pointer to b for the boolean b; a pointer to true for a string equal,
\* whatever the case, to one of true/1/t/yes/y and to false for one of
\* false/0/f/no/n; (nil, 'must be a boolean' error) for every other string,
\* the empty one included, and every other type, the numbers 0 and 1 included.
C18_OptionalBoolParam ==
  \A p \in ParamKeys :
    LET r == OptionalBoolParam(req, p)
        v == req[p]
    IN IF ~Present(p) \/ v = NilValue THEN r = [out |-> <<>>, err |-> NoErr]
       ELSE IF v.type = "bool" THEN r = [out |-> <<v.b>>, err |-> NoErr]
       ELSE IF v.type = "string" /\ \E w \in TrueWords : EqualFold(v.s, w)
       THEN r = [out |-> <<TRUE>>, err |-> NoErr]
       ELSE IF v.type = "string" /\ \E w \in FalseWords : EqualFold(v.s, w)
       THEN r = [out |-> <<FALSE>>, err |-> NoErr]
       ELSE r = [out |-> <<>>, err |-> ErrNotBool(p, v)]

\* "YES" has just been read as true, while the number 1 under the other key
\* is refused
C18_Witness ==
  /\ last.op = "OptionalBoolParam"
  /\ last.out.p = "page"
  /\ Present("page") /\ req["page"] = StringValue(<<"Y", "E", "S">>)
  /\ last.out.value = <<TRUE>>
  /\ last.err = NoErr
  /\ Present("per_page") /\ req["per_page"] = IntValue(1)
  /\ OptionalBoolParam(req, "per_page").err = ErrNotBool("per_page", IntValue(1))

\* C19: when the integer extraction of "page" and of "per_page" succeeds,
\* OptionalPaginationParams returns no error, page is the extracted page if
\* that is >= 1 and 1 otherwise, perPage is DefaultPerPage if the extracted
\* value is absent, 0 or negative, MaxPerPage if it exceeds MaxPerPage and
\* the extracted value otherwise: page >= 1 and 1 <= perPage <= MaxPerPage.
C19_PaginationClamps ==
  \A arch \in Archs :
    LET pg == OptionalIntParam(req, "page", arch)
        pp == OptionalIntParam(req, "per_page", arch)
        r == OptionalPaginationParams(req, arch)
    IN pg.err = NoErr /\ pp.err = NoErr =>
         /\ r.err = NoErr
         /\ r.page = (IF pg.out >= 1 THEN pg.out ELSE 1)
         /\ r.perPage = (IF pp.out <= 0 THEN DefaultPerPage
                         ELSE IF pp.out > MaxPerPage THEN MaxPerPage
                         ELSE pp.out)
         /\ r.page >= 1
         /\ 1 <= r.perPage /\ r.perPage <= MaxPerPage

\* page -5 and per_page 150.0 have just come back as page 1 and perPage
\* MaxPerPage
C19_Witness ==
  /\ last.op = "OptionalPaginationParams"
  /\ Present("page") /\ req["page"] = IntValue(-5)
  /\ Present("per_page") /\ req["per_page"] = FloatValue(300)
  /\ last.err = NoErr
  /\ last.out = [page |-> 1, perPage |-> MaxPerPage]

\* C20: when the integer extraction of "page" or of "per_page" fails,
\* OptionalPaginationParams returns page 0, perPage 0 and the extraction
\* error wrapped behind the name of the offending parameter; no default
\* stands in for a malformed value, and when both are malformed the error is
\* the one for "page".
C20_PaginationErrors ==
  \A arch \in Archs :
    LET pg == OptionalIntParam(req, "page", arch)
        pp == OptionalIntParam(req, "per_page", arch)
        r == OptionalPaginationParams(req, arch)
    IN /\ pg.err # NoErr =>
            r = [page |-> 0, perPage |-> 0, err |-> ErrInvalidPage(pg.err)]
       /\ pg.err = NoErr /\ pp.err # NoErr =>
            r = [page |-> 0, perPage |-> 0, err |-> ErrInvalidPerPage(pp.err)]

\* page 42.5 and per_page "abc" have just been answered with zeros and the
\* wrapped error for "page"
C20_Witness ==
  /\ last.op = "OptionalPaginationParams"
  /\ Present("page") /\ req["page"] = FloatValue(85)
  /\ Present("per_page") /\ req["per_page"] = StringValue(<<"a", "b", "c">>)
  /\ last.out = [page |-> 0, perPage |-> 0]
  /\ last.err = ErrInvalidPage(ErrNotWhole("page", 85))

\* ============================================== the registry, continued
\* the toolset objects the group holds
Held == {tg.Toolsets[n] : n \in Registered}
Elems(seq) == {seq[i] : i \in 1..Len(seq)}

\* C23: in a group created read-only, whatever AddToolset, AddReadTools,
\* AddWriteTools (before or after the AddToolset), EnableToolset and
\* EnableToolsets calls came before, RegisterTools pushes no tool that the
\* toolsets of the group were given through AddWriteTools only.
C23_ReadOnlyGroupPushesNoWriteTool ==
  tg.readOnly =>
    \A order \in Orders(Registered) :
      \A tool \in Elems(RegisterTools(tg, heap, order, <<>>)) :
        \E p \in Held : heap[p].Enabled /\ tool \in Elems(heap[p].readTools)

\* RegisterTools on a read-only group has just pushed the read tool of an
\* enabled toolset and withheld its write tool
C23_Witness ==
  /\ last.op = "RegisterTools"
  /\ tg.readOnly
  /\ \E p \in Held :
       /\ heap[p].Enabled
       /\ Len(heap[p].readTools) = 1
       /\ Len(heap[p].writeTools) = 1
       /\ heap[p].writeTools # heap[p].readTools
       /\ last.out = heap[p].readTools

\* a toolset as NewToolset returns it
C24_Fresh(t) ==
  /\ ~t.Enabled /\ ~t.readOnly
  /\ t.readTools = <<>> /\ t.writeTools = <<>>

C24_Constructed ==
  \A name \in ToolsetNames, d \in Descriptions : C24_Fresh(NewToolset(name, d))

C24_Step ==
  /\ Len(heap') > Len(heap) => C24_Fresh(heap'[Len(heap')])
  /\ \A p \in Ptrs :
       /\ heap[p].Enabled => heap'[p].Enabled
       /\ ~heap[p].Enabled /\ heap'[p].Enabled =>
            /\ last'.op \in {"EnableToolset", "EnableToolsets"}
            /\ p \in Held

\* C24: NewToolset returns a toolset with Enabled and readOnly false and no
\* tools; Enabled becomes true only through EnableToolset or EnableToolsets
\* on a group that holds the toolset, and no operation, a failing enable call
\* included, sets it back to false.
C24_EnabledMonotone == [](C24_Constructed) /\ [][C24_Step]_vars

\* a failing EnableToolsets has just returned and the toolset it enabled
\* before the unknown name is enabled, next to a toolset that never was
C24_Witness ==
  /\ last.op = "EnableToolsets"
  /\ last.err # NoErr
  /\ \E p \in Held : heap[p].Enabled
  /\ \E q \in Ptrs : ~heap[q].Enabled

\* C25: EnableToolsets(["all"]) acts on the toolsets of the group at the
\* time of the call: AddToolset on a group with everythingOn set leaves the
\* added toolset's Enabled as it is, so that RegisterTools pushes none of the
\* tools of a disabled one, and leaves everythingOn true.
C25_AllCoversOnlyPresentToolsets ==
  tg.everythingOn =>
    \A p \in Ptrs :
      LET r == AddToolset(tg, heap, p)
      IN /\ r.heap[p].Enabled = heap[p].Enabled
         /\ r.tg.everythingOn
         /\ ~heap[p].Enabled =>
              \A order \in Orders(DOMAIN r.tg.Toolsets \ {heap[p].Name}) :
                RegisterTools(r.tg, r.heap, <<heap[p].Name>> \o order, <<>>)
                  = RegisterTools(r.tg, r.heap, order, <<>>)

\* AddToolset has just added a disabled toolset holding a tool to a group
\* on which "all" was requested and whose other toolset is enabled
C25_Witness ==
  /\ last.op = "AddToolset"
  /\ tg.everythingOn
  /\ Cardinality(Registered) = 2
  /\ \E p \in Held, q \in Held :
       /\ ~heap[p].Enabled /\ heap[p].readTools # <<>>
       /\ heap[q].Enabled

\* the lists of two or more names in which "all" is the first name that is
\* not registered
C26_Lists ==
  {names \in NamesLists :
     /\ Len(names) >= 2
     /\ HasUnknown(names)
     /\ names[FirstUnknown(names)] = "all"}

\* C26: "all" is a directive only as the sole element of names.  In a list
\* of two or more names it is looked up as a toolset name: with no toolset of
\* that name EnableToolsets returns 'unknown toolset: all' at its position,
\* leaves everythingOn false and enables no toolset beyond those named
\* before it; those enabled already stay so.
C26_AllAmongNamesIsAName ==
  \A names \in C26_Lists :
    LET r == EnableToolsets(tg, heap, names)
        i == FirstUnknown(names)
    IN /\ r.err = ErrUnknownToolset("all")
       /\ ~r.tg.everythingOn
       /\ r.tg.Toolsets = tg.Toolsets
       /\ \A p \in Ptrs :
            r.heap[p].Enabled <=> (heap[p].Enabled \/ p \in Resolved(names, i))

\* EnableToolsets has just failed on "all", clearing everythingOn, and of
\* the two registered toolsets one is still disabled
C26_Witness ==
  /\ last.op = "EnableToolsets"
  /\ last.err = ErrUnknownToolset("all")
  /\ ~tg.everythingOn
  /\ Cardinality(Registered) = 2
  /\ \E p \in Held, q \in Held : heap[p].Enabled /\ ~heap[q].Enabled

\* C27: after any sequence of AddReadTools and AddWriteTools calls on a
\* toolset, no two tools the toolset holds, in readTools and writeTools
\* together, have the same name.
C27_ToolNamesUnique ==
  \A p \in Ptrs :
    LET held == heap[p].readTools \o heap[p].writeTools
    IN \A i, j \in 1..Len(held) : i # j => held[i] # held[j]

\* AddWriteTools has just stored, as a write tool, the tool the toolset
\* holds as a read tool
C27_Witness ==
  /\ last.op = "AddWriteTools"
  /\ \E p \in Ptrs :
       /\ Len(heap[p].readTools) = 1
       /\ heap[p].writeTools = heap[p].readTools

\* ---------------------------------------------------------------- InitToolsets
MaxEnabled == 2       \* length of the enabledToolsets list handed to InitToolsets

\* the toolsets InitToolsets defines, in the order it constructs and adds them
GitLabToolsets ==
  <<"projects", "issues", "merge_requests", "security", "users", "search">>

\* the strings a configuration may name: the toolsets, the directive and a
\* name no toolset has
ConfigStrings == Elems(GitLabToolsets) \cup {"all", "invalid-toolset"}

\* the descriptions, shortened
ToolsetDescription(name) == <<"Tools for ", name>>

\* the tools handed to projectsTS.AddReadTools
ProjectsReadTools == <<"getProject", "listProjects", "getProjectFile">>

\* a nil *ToolsetGroup
NilGroup == [nil |-> TRUE]

\* the calls InitToolsets makes, in order
InitToolsetsCalls ==
  <<"NewToolsetGroup">>
    \o [i \in 1..Len(GitLabToolsets) |-> "NewToolset"]
    \o <<"AddReadTools">>
    \o [i \in 1..Len(GitLabToolsets) |-> "AddToolset"]
    \o <<"EnableToolsets">>

\* tg.AddToolset on the toolsets at pointers from..Len(h), in that order
RECURSIVE AddToolsetsFrom(_, _, _)
AddToolsetsFrom(g, h, from) ==
  IF from > Len(h) THEN [tg |-> g, heap |-> h]
  ELSE LET r == AddToolset(g, h, from)
       IN AddToolsetsFrom(r.tg, r.heap, from + 1)

\* faulty variant: the group is returned together with the error
InitToolsetsKeepGroup(enabledToolsets, readOnly) ==
  LET h0 == [i \in 1..Len(GitLabToolsets) |->
              NewToolset(GitLabToolsets[i], ToolsetDescription(GitLabToolsets[i]))]
      h1 == [h0 EXCEPT ![1] = AddReadTools(@, ProjectsReadTools)]
      a  == AddToolsetsFrom(NewToolsetGroup(readOnly), h1, 1)
      r  == EnableToolsets(a.tg, a.heap, enabledToolsets)
  IN [tg |-> r.tg, heap |-> r.heap, err |-> r.err, calls |-> InitToolsetsCalls]

\* InitToolsets returns the group (NilGroup with an error), and leaves the
\* toolsets it constructed on the heap; calls: the calls it made
InitToolsets(enabledToolsets, readOnly) ==
  LET h0 == [i \in 1..Len(GitLabToolsets) |->
              NewToolset(GitLabToolsets[i], ToolsetDescription(GitLabToolsets[i]))]
      h1 == [h0 EXCEPT ![1] = AddReadTools(@, ProjectsReadTools)]
      a  == AddToolsetsFrom(NewToolsetGroup(readOnly), h1, 1)
      r  == EnableToolsets(a.tg, a.heap, enabledToolsets)
  IN IF r.err # NoErr
     THEN [tg |-> NilGroup, heap |-> r.heap, err |-> r.err,
           calls |-> InitToolsetsCalls]
     ELSE [tg |-> r.tg, heap |-> r.heap, err |-> NoErr,
           calls |-> InitToolsetsCalls]

\* a caller holds a list of names and a flag, and calls InitToolsets once
InitInitToolsets ==
  /\ heap = <<>>
  /\ tg = NilGroup
  /\ last = Call("", NoErr, <<>>)
  /\ req = EmptyMap
  /\ mem = <<>>
  /\ pc = "InitToolsets"
  /\ calls = <<>>
  /\ \E enabledToolsets \in SeqsOf(ConfigStrings, 0, MaxEnabled), readOnly \in BOOLEAN :
       locals = [enabledToolsets |-> enabledToolsets, readOnly |-> readOnly]

DoInitToolsets ==
  /\ pc = "InitToolsets"
  /\ LET r == InitToolsets(locals.enabledToolsets, locals.readOnly)
     IN /\ tg' = r.tg
        /\ heap' = r.heap
        /\ last' = Call("InitToolsets", r.err, <<>>)
        /\ calls' = calls \o r.calls
  /\ pc' = "returned"
  /\ UNCHANGED <<req, mem, locals>>

NextInitToolsets == DoInitToolsets

SpecInitToolsets == InitInitToolsets /\ [][NextInitToolsets]_vars

\* the first name of the list that is none of the six toolsets
FirstNonToolset(names) ==
  names[CHOOSE i \in 1..Len(names) :
          /\ names[i] \notin Elems(GitLabToolsets)
          /\ \A j \in 1..(i - 1) : names[j] \in Elems(GitLabToolsets)]

\* C21: InitToolsets(enabled, readOnly, getClient): on success the returned
\* group holds exactly the six toolsets projects, issues, merge_requests,
\* security, users and search, and the enabled ones are exactly those named
\* in enabled (all six when enabled is ["all"]); when EnableToolsets fails
\* (empty list or unknown name) it returns a nil group with that error.
C21_InitToolsetsResult ==
  last.op = "InitToolsets" =>
    LET enabled == locals.enabledToolsets
        six     == Elems(GitLabToolsets)
        fails   == enabled = <<>> \/
                   (enabled # <<"all">> /\ ~(Elems(enabled) \subseteq six))
    IN /\ (last.err # NoErr) <=> fails
       /\ last.err = NoErr =>
            /\ DOMAIN tg.Toolsets = six
            /\ \A n \in six : heap[tg.Toolsets[n]].Name = n
            /\ {n \in six : heap[tg.Toolsets[n]].Enabled}
                 = IF enabled = <<"all">> THEN six ELSE Elems(enabled)
       /\ last.err # NoErr =>
            /\ tg = NilGroup
            /\ last.err = IF enabled = <<>> THEN ErrNoToolsetsSpecified
                          ELSE ErrUnknownToolset(FirstNonToolset(enabled))

\* InitToolsets has returned a group with two of the six toolsets enabled
C21_Witness ==
  /\ last.op = "InitToolsets"
  /\ last.err = NoErr
  /\ Cardinality(DOMAIN tg.Toolsets) = 6
  /\ Cardinality({n \in DOMAIN tg.Toolsets : heap[tg.Toolsets[n]].Enabled}) = 2

\* ---------------------------------------------------------------- stdioCmd.Run
MaxStrLen == 3        \* pieces (names and commas) of the toolsets setting

\* the toolsets setting: a string, held as its pieces, each a comma or what
\* stands between two commas
Comma == ","
ToolsetsStrs ==
  {s \in SeqsOf(ConfigStrings \cup {Comma}, 0, MaxStrLen) :
     \A i \in 1..(Len(s) - 1) : s[i] = Comma \/ s[i + 1] = Comma}

\* strings.Split(s, ","): field is what was read since the last comma
RECURSIVE SplitFrom(_, _)
SplitFrom(s, field) ==
  IF s = <<>> THEN <<field>>
  ELSE IF Head(s) = Comma THEN <<field>> \o SplitFrom(Tail(s), "")
  ELSE SplitFrom(Tail(s), Head(s))

Split(s) == SplitFrom(s, "")

DefaultTools == <<"all">>

\* the orders in which a range over a map with keys S may visit them
RECURSIVE RangeOrders(_)
RangeOrders(S) ==
  IF S = {} THEN {<<>>}
  ELSE UNION {{<<x>> \o o : o \in RangeOrders(S \ {x})} : x \in S}

\* the command has its configuration and runs from its first statement
InitMain ==
  /\ heap = <<>>
  /\ tg = NilGroup
  /\ last = Call("", NoErr, <<>>)
  /\ req = EmptyMap
  /\ mem = <<>>
  /\ pc = "initLogger"
  /\ calls = <<>>
  /\ \E token \in {"", "glpat"}, toolsetsStr \in ToolsetsStrs, readOnly \in BOOLEAN :
       locals = [token |-> token, toolsetsStr |-> toolsetsStr,
                 readOnly |-> readOnly, enabledToolsets |-> <<>>,
                 err |-> NoErr, listening |-> FALSE, ctxDone |-> FALSE,
                 errC |-> <<>>]

\* logger.Fatal, logger.Fatalf, stdlog.Fatalf: the process exits
Fatal == pc' = "exit"

DoInitLogger ==
  /\ pc = "initLogger"
  /\ \E ok \in BOOLEAN : IF ok THEN pc' = "config" ELSE Fatal
  /\ calls' = Append(calls, "initLogger")
  /\ UNCHANGED <<heap, tg, last, req, mem, locals>>

DoReadConfig ==
  /\ pc = "config"
  /\ IF locals.token = ""
     THEN Fatal /\ UNCHANGED locals
     ELSE /\ pc' = "NewClient"
          /\ locals' = [locals EXCEPT !.enabledToolsets =
                          IF locals.toolsetsStr # <<>>
                          THEN Split(locals.toolsetsStr) ELSE DefaultTools]
  /\ UNCHANGED <<heap, tg, last, req, mem, calls>>

DoNewClient ==
  /\ pc = "NewClient"
  /\ \E ok \in BOOLEAN : IF ok THEN pc' = "InitToolsets" ELSE Fatal
  /\ calls' = Append(calls, "NewClient")
  /\ UNCHANGED <<heap, tg, last, req, mem, locals>>

\* toolsetGroup, err := gitlab.InitToolsets(...); if err != nil { Fatalf }
DoMainInitToolsets ==
  /\ pc = "InitToolsets"
  /\ LET r == InitToolsets(locals.enabledToolsets, locals.readOnly)
     IN /\ tg' = r.tg
        /\ heap' = r.heap
        /\ last' = Call("InitToolsets", r.err, <<>>)
        /\ calls' = calls \o <<"InitToolsets">> \o r.calls
        /\ locals' = [locals EXCEPT !.err = r.err]
        /\ IF r.err # NoErr THEN Fatal ELSE pc' = "NewServer"
  /\ UNCHANGED <<req, mem>>

\* faulty variant: the transport is created before the tools are registered
DoNewServerSkipRegister ==
  /\ pc = "NewServer"
  /\ pc' = "NewStdioServer"
  /\ calls' = Append(calls, "NewServer")
  /\ UNCHANGED <<heap, tg, last, req, mem, locals>>

DoNewServer ==
  /\ pc = "NewServer"
  /\ pc' = "RegisterTools"
  /\ calls' = Append(calls, "NewServer")
  /\ UNCHANGED <<heap, tg, last, req, mem, locals>>

DoMainRegisterTools ==
  /\ pc = "RegisterTools"
  /\ \E order \in RangeOrders(DOMAIN tg.Toolsets) :
       last' = Call("RegisterTools", NoErr, RegisterTools(tg, heap, order, <<>>))
  /\ pc' = "NewStdioServer"
  /\ calls' = Append(calls, "RegisterTools")
  /\ UNCHANGED <<heap, tg, req, mem, locals>>

DoNewStdioServer ==
  /\ pc = "NewStdioServer"
  /\ pc' = "go"
  /\ calls' = Append(calls, "NewStdioServer")
  /\ UNCHANGED <<heap, tg, last, req, mem, locals>>

\* go func() { errC <- stdioServer.Listen(ctx, os.Stdin, os.Stdout) }()
DoGoListen ==
  /\ pc = "go"
  /\ pc' = "select"
  /\ locals' = [locals EXCEPT !.listening = TRUE]
  /\ calls' = Append(calls, "Listen")
  /\ UNCHANGED <<heap, tg, last, req, mem>>

\* a signal cancels ctx
DoSignal ==
  /\ pc = "select"
  /\ ~locals.ctxDone
  /\ locals' = [locals EXCEPT !.ctxDone = TRUE]
  /\ UNCHANGED <<heap, tg, last, req, mem, pc, calls>>

\* Listen returns, with an error or, its input closed or ctx cancelled,
\* without; the goroutine sends the value on errC, which holds one
DoListenReturns ==
  /\ pc = "select"
  /\ locals.listening
  /\ \E err \in {NoErr, <<"context canceled">>, <<"read error">>} :
       /\ err = <<"context canceled">> => locals.ctxDone
       /\ locals' = [locals EXCEPT !.listening = FALSE, !.errC = <<err>>]
  /\ UNCHANGED <<heap, tg, last, req, mem, pc, calls>>

\* select { case <-ctx.Done(): ...; case err := <-errC: ... }
DoSelect ==
  /\ pc = "select"
  /\ \/ locals.ctxDone /\ UNCHANGED locals
     \/ /\ locals.errC # <<>>
        /\ locals' = [locals EXCEPT !.errC = <<>>]
  /\ pc' = "return"
  /\ UNCHANGED <<heap, tg, last, req, mem, calls>>

NextMain ==
  \/ DoInitLogger
  \/ DoReadConfig
  \/ DoNewClient
  \/ DoMainInitToolsets
  \/ DoNewServer
  \/ DoMainRegisterTools
  \/ DoNewStdioServer
  \/ DoGoListen
  \/ DoSignal
  \/ DoListenReturns
  \/ DoSelect

SpecMain == InitMain /\ [][NextMain]_vars

\* the positions of call c in the calls made so far
At(c) == {i \in 1..Len(calls) : calls[i] = c}

\* C28: in the stdio command RegisterTools is called only after InitToolsets
\* (all AddToolset calls, then the single EnableToolsets call) returned
\* without error; the listening goroutine is started only after
\* RegisterTools returned; no AddToolset, EnableToolset or EnableToolsets
\* call follows the start of the listener; and if InitToolsets fails the
\* process exits with no tool registered and no listener started.
C28_RegistryBuiltBeforeServing ==
  /\ \A r \in At("RegisterTools") :
       /\ last.op \in {"InitToolsets", "RegisterTools"}
       /\ locals.err = NoErr
       /\ Cardinality(At("AddToolset")) = Len(GitLabToolsets)
       /\ Cardinality(At("EnableToolsets")) = 1
       /\ \A e \in At("EnableToolsets") :
            e < r /\ \A a \in At("AddToolset") : a < e
  /\ \A l \in At("Listen") :
       /\ \E r \in At("RegisterTools") : r < l
       /\ pc \in {"select", "return"}
       /\ \A i \in (l + 1)..Len(calls) :
            calls[i] \notin {"AddToolset", "EnableToolset", "EnableToolsets"}
  /\ locals.err # NoErr =>
       /\ pc = "exit"
       /\ tg = NilGroup
       /\ At("RegisterTools") = {} /\ At("Listen") = {}
       /\ ~locals.listening

\* the listener runs, after InitToolsets enabled two toolsets and
\* RegisterTools pushed the tools of projects
C28_Witness ==
  /\ locals.listening
  /\ locals.enabledToolsets = <<"projects", "issues">>
  /\ last.op = "RegisterTools"
  /\ last.out = ProjectsReadTools

\* ---------------------------------------------------------------- tool handlers
MaxArgs == 2          \* arguments a request carries

\* A handler is the sequence of its calls, in statement order.  kind: the
\* call; T, name: its type argument and parameter name (for the API call, its
\* method); onErr: whether the error of a helper is rendered or dropped;
\* then: what follows the call ("int": the int() round trip, "Atoi",
\* "time.Parse": the conversion of a non-empty string, "NotFound": status 404
\* becomes a tool result, "list": an empty list is answered with "[]")
Step(kind, T, name, onErr, then) ==
  [kind |-> kind, T |-> T, name |-> name, onErr |-> onErr, then |-> then]

Required(T, name, then) == Step("requiredParam", T, name, "render", then)
Optional(T, name) == Step("OptionalParam", T, name, "render", "")
OptionalIf(name, then) == Step("OptionalParam", "string", name, "drop", then)
OptionalBool(name) == Step("OptionalBoolParam", "bool", name, "render", "")
OptionalTime(name) == Step("OptionalTimeParam", "string", name, "render", "")
Pagination == Step("OptionalPaginationParams", "int", "page", "render", "")
GetClient == Step("getClient", "", "", "", "")
Upstream(method, then) == Step("upstream", "", method, "", then)
Marshal(then) == Step("json.Marshal", "", "", "", then)
Decode == Step("base64", "", "", "", "")

GetProject ==
  <<Required("string", "projectId", ""), GetClient,
    Upstream("Projects.GetProject", "NotFound"), Marshal("")>>

ListProjects ==
  <<Optional("string", "search"), OptionalBool("membership"),
    OptionalBool("owned"), OptionalBool("starred"),
    Optional("string", "visibility"), Optional("string", "orderBy"),
    Optional("string", "sort"), Pagination, GetClient,
    Upstream("Projects.ListProjects", ""), Marshal("list")>>

GetProjectFile ==
  <<Required("string", "projectId", ""), Required("string", "filePath", ""),
    Optional("string", "ref"), GetClient,
    Upstream("RepositoryFiles.GetFile", "NotFound"), Decode>>

ListProjectFiles ==
  <<Required("string", "projectId", ""), Optional("string", "path"),
    Optional("string", "ref"), OptionalBool("recursive"), Pagination,
    GetClient, Upstream("Repositories.ListTree", "NotFound"), Marshal("list")>>

GetProjectBranches ==
  <<Required("string", "projectId", ""), Optional("string", "search"),
    Pagination, GetClient, Upstream("Branches.ListBranches", "NotFound"),
    Marshal("list")>>

GetProjectCommits ==
  <<Required("string", "projectId", ""), Optional("string", "ref"),
    Optional("string", "path"), OptionalTime("since"), OptionalTime("until"),
    OptionalBool("withStats"), Pagination, GetClient,
    Upstream("Commits.ListCommits", "NotFound"), Marshal("list")>>

GetIssue ==
  <<GetClient, Required("string", "projectId", ""),
    Required("float64", "issueIid", "int"),
    Upstream("Issues.GetIssue", "NotFound"), Marshal("")>>

ListIssues ==
  <<GetClient, Required("string", "projectId", ""),
    Optional("string", "state"), Optional("string", "labels"),
    Optional("string", "milestone"), Optional("string", "scope"),
    Optional("float64", "authorId"), Optional("float64", "assigneeId"),
    Optional("string", "search"), Optional("string", "orderBy"),
    Optional("string", "sort"), OptionalTime("createdAfter"),
    OptionalTime("createdBefore"), OptionalTime("updatedAfter"),
    OptionalTime("updatedBefore"), Pagination,
    Upstream("Issues.ListProjectIssues", "NotFound"), Marshal("list")>>

GetMergeRequest ==
  <<Required("string", "projectId", ""),
    Required("float64", "mergeRequestIid", "int"), GetClient,
    Upstream("MergeRequests.GetMergeRequest", "NotFound"), Marshal("")>>

GetMergeRequestComments ==
  <<Required("string", "projectId", ""),
    Required("float64", "mergeRequestIid", "int"), Pagination, GetClient,
    Upstream("Notes.ListMergeRequestNotes", "NotFound"), Marshal("list")>>

ListMergeRequests ==
  <<Required("string", "projectId", ""), GetClient, Pagination,
    OptionalIf("state", ""), OptionalIf("scope", ""),
    OptionalIf("author_id", "Atoi"), OptionalIf("assignee_id", "Atoi"),
    OptionalIf("labels", ""), OptionalIf("milestone", ""),
    OptionalIf("search", ""), OptionalIf("created_after", "time.Parse"),
    OptionalIf("created_before", "time.Parse"),
    OptionalIf("updated_after", "time.Parse"),
    OptionalIf("updated_before", "time.Parse"), OptionalIf("sort", ""),
    OptionalIf("order_by", ""),
    Upstream("MergeRequests.ListProjectMergeRequests", "NotFound"),
    Marshal("list")>>

Handlers ==
  [h \in {"getProject", "listProjects", "getProjectFile", "listProjectFiles",
          "getProjectBranches", "getProjectCommits", "getIssue", "listIssues",
          "getMergeRequest", "getMergeRequestComments", "listMergeRequests"} |->
     CASE h = "getProject" -> GetProject
       [] h = "listProjects" -> ListProjects
       [] h = "getProjectFile" -> GetProjectFile
       [] h = "listProjectFiles" -> ListProjectFiles
       [] h = "getProjectBranches" -> GetProjectBranches
       [] h = "getProjectCommits" -> GetProjectCommits
       [] h = "getIssue" -> GetIssue
       [] h = "listIssues" -> ListIssues
       [] h = "getMergeRequest" -> GetMergeRequest
       [] h = "getMergeRequestComments" -> GetMergeRequestComments
       [] h = "listMergeRequests" -> ListMergeRequests]

ExtractKinds ==
  {"requiredParam", "OptionalParam", "OptionalBoolParam", "OptionalTimeParam",
   "OptionalPaginationParams"}

\* the parameter names a handler reads
ParamsOf(prog) ==
  UNION {IF prog[i].kind = "OptionalPaginationParams" THEN {"page", "per_page"}
         ELSE {prog[i].name} : i \in {j \in 1..Len(prog) : prog[j].kind \in ExtractKinds}}

TimeString ==
  <<"2", "0", "2", "4", "-", "0", "1", "-", "0", "1", "T",
    "0", "0", ":", "0", "0", ":", "0", "0", "Z">>

HandlerValues ==
  {StringValue(<<"7">>), StringValue(<<>>), StringValue(TimeString),
   FloatValue(2), FloatValue(3), FloatValue(0), BoolValue(TRUE), NilValue}

\* request.Params.Arguments for a call of the handler
HandlerRequests(prog) ==
  UNION {[K -> HandlerValues] :
           K \in {A \in SUBSET ParamsOf(prog) : Cardinality(A) <= MaxArgs}}

\* time.Parse(time.RFC3339, s) succeeds; of the layout, the form
\* yyyy-mm-ddThh:mm:ssZ, the fields not checked for their ranges
ParsesRFC3339(s) ==
  /\ Len(s) = 20
  /\ \A i \in 1..20 :
       CASE i \in {5, 8} -> s[i] = "-"
         [] i = 11 -> s[i] = "T"
         [] i \in {14, 17} -> s[i] = ":"
         [] i = 20 -> s[i] = "Z"
         [] OTHER -> IsIn(s[i], DigitChars)

ErrNotTimestamp(p, s) ==
  <<"parameter '", p, "' must be a valid ISO 8601 timestamp string, got ">> \o s

OptionalTimeParam(r, p) ==
  LET v == OptionalParam("string", r, p)
  IN IF v.err # NoErr THEN [out |-> <<>>, err |-> v.err]
     ELSE IF v.out.s = <<>> THEN [out |-> <<>>, err |-> NoErr]
     ELSE IF ~ParsesRFC3339(v.out.s)
     THEN [out |-> <<>>, err |-> ErrNotTimestamp(p, v.out.s)]
     ELSE [out |-> <<v.out.s>>, err |-> NoErr]

\* the error of the helper a step calls, and, the helper having succeeded,
\* the error of the conversion that follows it
Extract(s, r, arch) ==
  CASE s.kind = "requiredParam" ->
         LET v == requiredParam(s.T, r, s.name)
         IN [err  |-> v.err,
             conv |-> IF v.err = NoErr /\ s.then = "int"
                         /\ IntToFloat(FloatToInt(v.out.n, arch)) # v.out.n
                      THEN <<s.name, " ", ToString(v.out.n), "/2 is not a valid integer">>
                      ELSE NoErr]
    [] s.kind = "OptionalParam" ->
         LET v == OptionalParam(s.T, r, s.name)
         IN [err  |-> v.err,
             conv |-> IF v.err # NoErr \/ v.out.s = <<>> THEN NoErr
                      ELSE IF s.then = "Atoi" /\ Atoi(v.out.s).err # ""
                      THEN <<s.name, " must be a valid integer: ", Atoi(v.out.s).err>>
                      ELSE IF s.then = "time.Parse" /\ ~ParsesRFC3339(v.out.s)
                      THEN <<s.name, " must be a valid ISO 8601 datetime">>
                      ELSE NoErr]
    [] s.kind = "OptionalBoolParam" ->
         [err |-> OptionalBoolParam(r, s.name).err, conv |-> NoErr]
    [] s.kind = "OptionalTimeParam" ->
         [err |-> OptionalTimeParam(r, s.name).err, conv |-> NoErr]
    [] s.kind = "OptionalPaginationParams" ->
         [err |-> OptionalPaginationParams(r, arch).err, conv |-> NoErr]

\* *mcp.CallToolResult
NilResult == [nil |-> TRUE]
NewToolResultError(text) == [IsError |-> TRUE, Text |-> text]
NewToolResultText(text) == [IsError |-> FALSE, Text |-> text]
ValidationError(err) == NewToolResultError(<<"Validation Error: ">> \o err)

\* faulty variant: an absent response counts as not found
StatusCodeAbsentIsNotFound(resp) == IF resp # 0 THEN resp ELSE 404

\* code := http.StatusInternalServerError; if resp != nil { code = resp.StatusCode }
\* (resp: the status of the response, 0 for a nil response)
StatusCode(resp) == IF resp # 0 THEN resp ELSE 500

\* what the API method returns: an error with a response or without, or a
\* value (for a list, of n items)
UpstreamOutcomes ==
  {[err |-> <<"api error">>, resp |-> resp, n |-> 0] : resp \in {0, 403, 404, 500}}
    \cup {[err |-> NoErr, resp |-> 200, n |-> n] : n \in 0..1}

\* a made call: the helper's error, the conversion's, the API response
Made(s, err, conv, resp, n) ==
  [kind |-> s.kind, name |-> s.name, err |-> err, conv |-> conv,
   resp |-> resp, n |-> n]

Prog == Handlers[locals.handler]
AtStep == Prog[locals.step]

InitHandlers ==
  /\ heap = <<>>
  /\ tg = NilGroup
  /\ mem = <<>>
  /\ pc = "run"
  /\ calls = <<>>
  /\ last = Call("", NoErr, NilResult)
  /\ \E h \in DOMAIN Handlers :
       /\ locals = [handler |-> h, step |-> 1]
       /\ req \in HandlerRequests(Handlers[h])

\* return result, err
Return(result, err) ==
  /\ pc' = "return"
  /\ last' = Call(locals.handler, err, result)
  /\ UNCHANGED locals

Proceed ==
  /\ locals' = [locals EXCEPT !.step = @ + 1]
  /\ UNCHANGED <<pc, last>>

DoExtract ==
  /\ pc = "run"
  /\ \E s \in {AtStep}, arch \in Archs :
       /\ s.kind \in ExtractKinds
       /\ \E e \in {Extract(s, req, arch)} :
            /\ calls' = Append(calls, Made(s, e.err, e.conv, 0, 0))
            /\ IF e.err # NoErr /\ s.onErr = "render"
               THEN Return(ValidationError(e.err), NoErr)
               ELSE IF e.conv # NoErr
               THEN Return(ValidationError(e.conv), NoErr)
               ELSE Proceed
  /\ UNCHANGED <<heap, tg, req, mem>>

DoGetClient ==
  /\ pc = "run"
  /\ \E s \in {AtStep}, err \in {NoErr, <<"no client">>} :
       /\ s.kind = "getClient"
       /\ calls' = Append(calls, Made(s, err, NoErr, 0, 0))
       /\ IF err # NoErr
          THEN Return(NilResult, <<"failed to get GitLab client: ">> \o err)
          ELSE Proceed
  /\ UNCHANGED <<heap, tg, req, mem>>

DoUpstream ==
  /\ pc = "run"
  /\ \E s \in {AtStep}, o \in UpstreamOutcomes :
       /\ s.kind = "upstream"
       /\ calls' = Append(calls, Made(s, o.err, NoErr, o.resp, o.n))
       /\ IF o.err = NoErr THEN Proceed
          ELSE \E code \in {StatusCode(o.resp)} :
                 IF code = 404 /\ s.then = "NotFound"
                 THEN Return(NewToolResultError(
                               <<"not found or access denied (", ToString(code), ")">>),
                             NoErr)
                 ELSE Return(NilResult,
                             <<"failed: ">> \o o.err \o <<" (status: ", ToString(code), ")">>)
  /\ UNCHANGED <<heap, tg, req, mem>>

DoMarshal ==
  /\ pc = "run"
  /\ \E s \in {AtStep} :
       /\ s.kind = "json.Marshal"
       /\ IF s.then = "list" /\ calls[Len(calls)].n = 0
          THEN /\ Return(NewToolResultText(<<"[]">>), NoErr)
               /\ UNCHANGED calls
          ELSE \E err \in {NoErr, <<"unsupported value">>} :
                 /\ calls' = Append(calls, Made(s, err, NoErr, 0, 0))
                 /\ IF err # NoErr
                    THEN Return(NilResult, <<"failed to marshal: ">> \o err)
                    ELSE Return(NewToolResultText(<<"data">>), NoErr)
  /\ UNCHANGED <<heap, tg, req, mem>>

DoDecode ==
  /\ pc = "run"
  /\ \E s \in {AtStep}, err \in {NoErr, <<"illegal base64 data">>} :
       /\ s.kind = "base64"
       /\ calls' = Append(calls, Made(s, err, NoErr, 0, 0))
       /\ IF err # NoErr
          THEN Return(NilResult, <<"failed to decode base64 content: ">> \o err)
          ELSE Return(NewToolResultText(<<"content">>), NoErr)
  /\ UNCHANGED <<heap, tg, req, mem>>

NextHandlers ==
  \/ DoExtract
  \/ DoGetClient
  \/ DoUpstream
  \/ DoMarshal
  \/ DoDecode

SpecHandlers == InitHandlers /\ [][NextHandlers]_vars

Returned == pc = "return"
IsToolError == last.out # NilResult /\ last.out.IsError
IsValidationError ==
  IsToolError /\ SubSeq(last.out.Text, 1, 1) = <<"Validation Error: ">>
UpstreamCalls == {i \in 1..Len(calls) : calls[i].kind = "upstream"}
ClientFailed == \E i \in 1..Len(calls) : calls[i].kind = "getClient" /\ calls[i].err # NoErr
LastMade == calls[Len(calls)]

\* the status a handler error reports
ReportedStatus == last.err[Len(last.err) - 1]

\* the two classes of what a handler returns, by the call it returned from;
\* notFoundIsToolError: the handlers whose upstream 404 is a tool result
ReturnClasses(notFoundIsToolError) ==
  Returned =>
    /\ (last.out = NilResult) <=> (last.err # NoErr)
    /\ (LastMade.kind \in ExtractKinds
          /\ (LastMade.err # NoErr \/ LastMade.conv # NoErr)) =>
         IsValidationError /\ last.err = NoErr
    /\ (LastMade.kind = "upstream" /\ LastMade.err # NoErr /\ LastMade.resp = 404) =>
         IF locals.handler \in notFoundIsToolError
         THEN IsToolError /\ last.err = NoErr
         ELSE last.out = NilResult /\ last.err # NoErr /\ ReportedStatus = "404"
    /\ (LastMade.kind = "getClient" /\ LastMade.err # NoErr) =>
         last.out = NilResult /\ last.err # NoErr
    /\ (LastMade.kind = "upstream" /\ LastMade.err # NoErr /\ LastMade.resp # 404) =>
         /\ last.out = NilResult /\ last.err # NoErr
         /\ ReportedStatus = IF LastMade.resp = 0 THEN "500" ELSE ToString(LastMade.resp)
    /\ (LastMade.kind \in {"json.Marshal", "base64"} /\ LastMade.err # NoErr) =>
         last.out = NilResult /\ last.err # NoErr

\* C22 as stated: every tool handler returns exactly one of (result, handler
\* error) as non-nil; a parameter validation failure and an upstream 404 are
\* returned as a tool-result error with a nil handler error; a
\* client-acquisition failure, any other upstream failure (status 500 when
\* the response is absent) and a marshalling failure as a handler error with
\* a nil result.
C22_ErrorClassesAllHandlers == ReturnClasses(DOMAIN Handlers)

\* C22, amended: as stated for every handler but listProjects, which returns
\* an upstream 404 like any other upstream failure, as a handler error with a
\* nil result; a failure to decode a file's content is a handler error too.
C22_ErrorClasses == ReturnClasses(DOMAIN Handlers \ {"listProjects"})

\* listProjects has returned a handler error for an upstream 404, after
\* every parameter was read and the client acquired
C22_Witness ==
  /\ Returned
  /\ locals.handler = "listProjects"
  /\ LastMade.kind = "upstream" /\ LastMade.resp = 404
  /\ last.out = NilResult
  /\ ReportedStatus = "404"

\* the steps of the handler that read parameters
ExtractSteps == {i \in 1..Len(Prog) : Prog[i].kind \in ExtractKinds}
\* a helper of the handler returns an error on the request
HelperFails(i) == \E arch \in Archs : Extract(Prog[i], req, arch).err # NoErr
\* the step has been made, helper and conversion without error
Succeeded(i, before) ==
  \E j \in 1..(before - 1) :
    /\ calls[j].kind = Prog[i].kind /\ calls[j].name = Prog[i].name
    /\ calls[j].err = NoErr /\ calls[j].conv = NoErr

\* C29: in every tool handler a request whose required parameter is missing,
\* of the wrong type or a zero value is answered with a 'Validation Error'
\* tool result before any upstream API method is invoked (the client having
\* been acquired): on every execution path the upstream call happens only
\* after all parameter extraction of the handler has succeeded.
C29_ValidationBeforeUpstream ==
  /\ (Returned /\ ~ClientFailed
        /\ \E i \in ExtractSteps : Prog[i].kind = "requiredParam" /\ HelperFails(i)) =>
       IsValidationError /\ last.err = NoErr /\ UpstreamCalls = {}
  /\ \A u \in UpstreamCalls : \A i \in ExtractSteps : Succeeded(i, u)

\* listMergeRequests calls the API method although the helper reading an
\* optional parameter has just returned an error
C29_Witness ==
  /\ locals.handler = "listMergeRequests"
  /\ calls # <<>>
  /\ LastMade.kind = "upstream"
  /\ \E j \in 1..(Len(calls) - 1) :
       calls[j].kind = "OptionalParam" /\ calls[j].err # NoErr

\* C30: every tool handler renders every error returned by a
\* parameter-normalization call: a request on which a helper the handler
\* calls returns an error (an optional parameter of the wrong type) is
\* answered, the client having been acquired, with a 'Validation Error' tool
\* result and no upstream call, never as if the parameter were absent.
C30_NormalizationErrorsRendered ==
  (Returned /\ ~ClientFailed /\ \E i \in ExtractSteps : HelperFails(i)) =>
    IsValidationError /\ last.err = NoErr /\ UpstreamCalls = {}

\* listMergeRequests has answered with data a request whose state is a number
C30_Witness ==
  /\ Returned
  /\ locals.handler = "listMergeRequests"
  /\ "state" \in DOMAIN req /\ req["state"].type = "float64"
  /\ last.err = NoErr
  /\ last.out = NewToolResultText(<<"data">>)
====
